---- MODULE Spec2Model ----
(***************************************************************************)
(* Personal expense tracker: the record model, the CSV store, the budget   *)
(* and the ledger operations of the three program variants of the          *)
(* repository                                                              *)
(*   "v3"    src/Test Case 1/expenseTracker3.py  (strict validation,       *)
(*                                                import/merge)            *)
(*   "final" src/expenseTrackerFinal.py           (prompt loops)           *)
(*   "app"   src/app.py                           (web forms over the      *)
(*                                                classes of "final")      *)
(* and, for validation alone, ValidateExpenseData of                       *)
(* src/expesneTracker4WithComments.py.                                     *)
(* Texts are sequences of one-character strings, so that strip, lower,     *)
(* split, isdigit, int() and float() are computed and not assumed.         *)
(* Amounts are floats: a finite value is kept to FracDigits fractional     *)
(* digits, next to the two non-finite values float() also produces (nan,   *)
(* inf).                                                                   *)
(***************************************************************************)
EXTENDS Integers, Sequences, FiniteSets, TLC

(***************************************************************************)
(* Characters                                                              *)
(***************************************************************************)
\* The printable ASCII characters in code point order, 32 .. 126 (the grave
\* accent, 96, is written by its code point).
Ascii ==
  << " ", "!", "\"", "#", "$", "%", "&", "'", "(", ")", "*", "+", ",", "-", ".", "/",
     "0", "1", "2", "3", "4", "5", "6", "7", "8", "9", ":", ";", "<", "=", ">", "?",
     "@", "A", "B", "C", "D", "E", "F", "G", "H", "I", "J", "K", "L", "M", "N", "O",
     "P", "Q", "R", "S", "T", "U", "V", "W", "X", "Y", "Z", "[", "\\", "]", "^", "_",
     "<U+0060>", "a", "b", "c", "d", "e", "f", "g", "h", "i", "j", "k", "l", "m", "n", "o",
     "p", "q", "r", "s", "t", "u", "v", "w", "x", "y", "z", "{", "|", "}", "~" >>

\* U+00B2 SUPERSCRIPT TWO, written as one character of this name: a character
\* for which str.isdigit() is True and which int() does not accept.
Sup2 == "<U+00B2>"

\* the code point of every character of the model
CodePoint ==
  [c \in {Ascii[i] : i \in 1..Len(Ascii)} \cup {Sup2} |->
     IF c = Sup2 THEN 178 ELSE 31 + (CHOOSE i \in 1..Len(Ascii) : Ascii[i] = c)]

\* ord(c)
Ord(c) == CodePoint[c]

DecimalChars == {"0", "1", "2", "3", "4", "5", "6", "7", "8", "9"}

DigitVal(c) == Ord(c) - 48

\* the character of one decimal digit 0..9
DigitChar(n) == Ascii[17 + n]

\* str.isdigit() of one character
IsDigitChar(c) == c \in DecimalChars \cup {Sup2}

\* str.isspace() of one character (the whitespace str.strip() removes)
IsSpaceChar(c) == c = " "

\* str.lower() of one character
LowerChar(c) ==
  IF c # Sup2 /\ Ord(c) >= 65 /\ Ord(c) <= 90 THEN Ascii[Ord(c) - 31 + 32] ELSE c

(***************************************************************************)
(* Texts (str) and None                                                    *)
(***************************************************************************)
\* Python's None where a text is expected (csv.DictReader's value for a field
\* a short row does not have).  No text equals it: its one element is no
\* character.
None == << "<None>" >>

\* str.lower()
Lower(s) == [i \in 1..Len(s) |-> LowerChar(s[i])]

RECURSIVE LStrip(_)
LStrip(s) ==
  IF s # << >> /\ IsSpaceChar(Head(s)) THEN LStrip(Tail(s)) ELSE s

RECURSIVE RStrip(_)
RStrip(s) ==
  IF s # << >> /\ IsSpaceChar(s[Len(s)]) THEN RStrip(SubSeq(s, 1, Len(s) - 1)) ELSE s

\* str.strip()
Strip(s) == RStrip(LStrip(s))

\* str.isdigit(): non-empty and every character a digit
IsDigit(s) == s # << >> /\ \A i \in 1..Len(s) : IsDigitChar(s[i])

\* str.split(sep) for a one-character separator
RECURSIVE Split(_, _)
Split(s, sep) ==
  IF \A i \in 1..Len(s) : s[i] # sep THEN << s >>
  ELSE LET k == CHOOSE i \in 1..Len(s) :
                  s[i] = sep /\ \A j \in 1..(i - 1) : s[j] # sep
       IN  << SubSeq(s, 1, k - 1) >> \o Split(SubSeq(s, k + 1, Len(s)), sep)

\* s < t for str: lexicographic by code point
RECURSIVE StrLess(_, _)
StrLess(s, t) ==
  IF t = << >> THEN FALSE
  ELSE IF s = << >> THEN TRUE
  ELSE IF Head(s) # Head(t) THEN Ord(Head(s)) < Ord(Head(t))
  ELSE StrLess(Tail(s), Tail(t))

\* the value of a text of decimal digits
RECURSIVE DigitsValue(_)
DigitsValue(s) ==
  IF s = << >> THEN 0
  ELSE 10 * DigitsValue(SubSeq(s, 1, Len(s) - 1)) + DigitVal(s[Len(s)])

\* the decimal digits of n >= 0 (str(n))
RECURSIVE NatText(_)
NatText(n) ==
  IF n < 10 THEN << DigitChar(n) >>
  ELSE NatText(n \div 10) \o << DigitChar(n % 10) >>

\* n >= 0 in at least w digits, zero padded ("%02d")
RECURSIVE ZeroPad(_, _)
ZeroPad(s, w) == IF Len(s) >= w THEN s ELSE ZeroPad(<< "0" >> \o s, w)

(***************************************************************************)
(* Floats                                                                  *)
(***************************************************************************)
\* Fractional decimal digits the model keeps of a finite float.
FracDigits == 3

RECURSIVE Pow10(_)
Pow10(n) == IF n = 0 THEN 1 ELSE 10 * Pow10(n - 1)

\* A finite float x is kept as the integer x * Scale.
Scale == Pow10(FracDigits)

Fin(v) == [k |-> "fin", v |-> v]
NaN == [k |-> "nan", v |-> 0]
Inf(sign) == [k |-> "inf", v |-> sign]
\* float() and int() raising ValueError
ValueError == [k |-> "ValueError", v |-> 0]
\* float(None) raising TypeError, None.strip() raising AttributeError
TypeError == [k |-> "TypeError", v |-> 0]

IsDecimal(s) == \A i \in 1..Len(s) : s[i] \in DecimalChars

\* the float of an integer part and a fraction part, both of decimal digits
\* and not both empty; the fraction is kept to FracDigits digits
ParseDigits(ip, fp) ==
  IF ~IsDecimal(ip) \/ ~IsDecimal(fp) \/ (ip = << >> /\ fp = << >>) THEN ValueError
  ELSE Fin(DigitsValue(ip) * Scale
           + DigitsValue(SubSeq(fp \o [i \in 1..FracDigits |-> "0"], 1, FracDigits)))

ParseParts(parts) ==
  IF Len(parts) > 2 THEN ValueError
  ELSE ParseDigits(parts[1], IF Len(parts) = 2 THEN parts[2] ELSE << >>)

\* float() of the unsigned part of a numeric text: digits, or digits "."
\* digits with at least one digit in all (exponents and digit-group
\* underscores are outside the input alphabet of the model).
ParseUnsigned(s) == ParseParts(Split(s, "."))

\* -u for the float u that float() read from the unsigned part
Negated(u) == IF u.k = "fin" THEN Fin(-u.v) ELSE u

\* float() of a sign and the text after it
ParseSigned(neg, body, low) ==
  IF low = << "n", "a", "n" >> THEN NaN
  ELSE IF low \in { << "i", "n", "f" >>, << "i", "n", "f", "i", "n", "i", "t", "y" >> }
       THEN Inf(IF neg THEN -1 ELSE 1)
  ELSE IF neg THEN Negated(ParseUnsigned(body))
  ELSE ParseUnsigned(body)

ParseBody(neg, body) == ParseSigned(neg, body, Lower(body))

ParseStripped(t) ==
  IF t # << >> /\ Head(t) \in {"+", "-"} THEN ParseBody(Head(t) = "-", Tail(t))
  ELSE ParseBody(FALSE, t)

\* float(s) for a str s
ParseFloat(s) == ParseStripped(Strip(s))

\* float(x) for x a str or None
ToFloat(x) == IF x = None THEN TypeError ELSE ParseFloat(x)

\* a < 0 for a float a
FloatNegative(a) == (a.k = "fin" /\ a.v < 0) \/ (a.k = "inf" /\ a.v < 0)

\* a <= 0 for a float a
FloatNotPositive(a) == (a.k = "fin" /\ a.v <= 0) \/ (a.k = "inf" /\ a.v < 0)

\* a >= 0 for a float a (False for nan)
FloatNonNegative(a) == (a.k = "fin" /\ a.v >= 0) \/ (a.k = "inf" /\ a.v > 0)

\* a == b for floats (nan equals nothing)
FloatEq(a, b) == a.k # "nan" /\ b.k # "nan" /\ a = b

\* a + b for floats
FloatAdd(a, b) ==
  IF a.k = "nan" \/ b.k = "nan" THEN NaN
  ELSE IF a.k = "inf" /\ b.k = "inf" THEN (IF a.v = b.v THEN a ELSE NaN)
  ELSE IF a.k = "inf" THEN a
  ELSE IF b.k = "inf" THEN b
  ELSE Fin(a.v + b.v)

\* a - b for floats
FloatSub(a, b) ==
  FloatAdd(a, IF b.k = "fin" THEN Fin(-b.v) ELSE IF b.k = "inf" THEN Inf(-b.v) ELSE b)

\* abs(a) for a float a
FloatAbs(a) ==
  IF a.k = "fin" THEN Fin(IF a.v < 0 THEN -a.v ELSE a.v)
  ELSE IF a.k = "inf" THEN Inf(1) ELSE a

\* the text of a special value, shared by str() and format()
SpecialText(a) ==
  IF a.k = "nan" THEN << "n", "a", "n" >>
  ELSE IF a.v < 0 THEN << "-", "i", "n", "f" >> ELSE << "i", "n", "f" >>

RECURSIVE DropTrailingZeros(_)
DropTrailingZeros(s) ==
  IF Len(s) > 1 /\ s[Len(s)] = "0" THEN DropTrailingZeros(SubSeq(s, 1, Len(s) - 1)) ELSE s

\* str(a) for a float a: the shortest text that float() reads back as a
StrFloat(a) ==
  IF a.k # "fin" THEN SpecialText(a)
  ELSE LET m == IF a.v < 0 THEN -a.v ELSE a.v
       IN  (IF a.v < 0 THEN << "-" >> ELSE << >>)
           \o NatText(m \div Scale) \o << "." >>
           \o DropTrailingZeros(ZeroPad(NatText(m % Scale), FracDigits))

\* two fractional digits by cutting the further digits off
Format2fCut(a) ==
  IF a.k # "fin" THEN SpecialText(a)
  ELSE LET m == IF a.v < 0 THEN -a.v ELSE a.v
           c == m \div (Scale \div 100)
       IN  (IF a.v < 0 THEN << "-" >> ELSE << >>)
           \o NatText(c \div 100) \o << "." >> \o ZeroPad(NatText(c % 100), 2)

\* "{:.2f}".format(a): fixed point, two fractional digits, the nearest value
\* (a tie, which only a binary fraction such as 0.125 is, goes to the even
\* digit)
Format2f(a) ==
  IF a.k # "fin" THEN SpecialText(a)
  ELSE LET m    == IF a.v < 0 THEN -a.v ELSE a.v
           unit == Scale \div 100
           q    == m \div unit
           r    == m % unit
           c    == IF 2 * r > unit \/ (2 * r = unit /\ q % 2 = 1) THEN q + 1 ELSE q
       IN  (IF a.v < 0 THEN << "-" >> ELSE << >>)
           \o NatText(c \div 100) \o << "." >> \o ZeroPad(NatText(c % 100), 2)

(***************************************************************************)
(* Calendar                                                                *)
(***************************************************************************)
\* every fourth year taken for a leap year
IsLeapEveryFourth(year) == year % 4 = 0

\* calendar.isleap(year)
IsLeap(year) == year % 4 = 0 /\ (year % 100 # 0 \/ year % 400 = 0)

DaysInMonth(year, month) ==
  IF month = 2 THEN (IF IsLeap(year) THEN 29 ELSE 28)
  ELSE IF month \in {4, 6, 9, 11} THEN 30 ELSE 31

\* datetime(year, month, day) does not raise ValueError
IsCalendarDate(year, month, day) ==
  /\ year >= 1 /\ year <= 9999
  /\ month >= 1 /\ month <= 12
  /\ day >= 1 /\ day <= DaysInMonth(year, month)

\* int(s) raises ValueError for a text of digits (str.isdigit) that are not
\* all decimal digits
IntRaises(s) == ~IsDecimal(s)

(***************************************************************************)
(* Validation of "v3"                                                      *)
(***************************************************************************)
NoError == "None"
DateRequired == "Date is required."
DateFormat == "Date must be in YYYY-MM-DD format."
NotLeapYear == "{year} is not a leap year; February 29 is invalid."
InvalidCalendarDate == "Invalid calendar date (e.g., February 30 doesn't exist)."
AmountRequired == "Amount is required."
AmountNegative == "Amount cannot be negative."
AmountNotNumber == "Amount must be a valid number."
\* the call does not return: ValueError leaves it
RaisedValueError == "raise ValueError"

\* the leap-day check of _ValidateDateStrict, made before the general one
LeapDayError(year, month, day) == month = 2 /\ day = 29 /\ ~IsLeap(year)

\* the calendar checks of _ValidateDateStrict
ValidateYMD(year, month, day) ==
  IF LeapDayError(year, month, day) THEN NotLeapYear
  ELSE IF ~IsCalendarDate(year, month, day) THEN InvalidCalendarDate
  ELSE NoError

\* the format checks of _ValidateDateStrict on the parts between the dashes
ValidateParts(parts) ==
  IF Len(parts) # 3 \/ \E i \in 1..Len(parts) : ~IsDigit(parts[i]) THEN DateFormat
  ELSE IF ~(Len(parts[1]) = 4 /\ Len(parts[2]) = 2 /\ Len(parts[3]) = 2) THEN DateFormat
  ELSE IF \E i \in 1..3 : IntRaises(parts[i]) THEN RaisedValueError
  ELSE ValidateYMD(DigitsValue(parts[1]), DigitsValue(parts[2]), DigitsValue(parts[3]))

\* ExpenseTracker._ValidateDateStrict(date_str)
ValidateDateStrict(date_str) ==
  IF date_str = << >> THEN DateRequired ELSE ValidateParts(Split(date_str, "-"))

\* the same checks without the one for a negative amount
AmountErrorUnsigned(amount_value) ==
  IF amount_value.k = "ValueError" THEN AmountNotNumber ELSE NoError

\* the checks of ValidateExpenseData on float(amount_str)
AmountError(amount_value) ==
  IF amount_value.k = "ValueError" THEN AmountNotNumber
  ELSE IF FloatNegative(amount_value) THEN AmountNegative
  ELSE NoError

\* the amount checks of ValidateExpenseData
ValidateAmount(amount_str) ==
  IF amount_str = << >> THEN AmountRequired ELSE AmountError(ParseFloat(amount_str))

\* the first error of ValidateExpenseData: the date's, if it has one
FirstError(date_error, amount_error) ==
  IF date_error # NoError THEN date_error ELSE amount_error

\* ExpenseTracker.ValidateExpenseData(date_str, amount_str)
ValidateExpenseData(date_str, amount_str) ==
  FirstError(ValidateDateStrict(date_str), ValidateAmount(amount_str))

(***************************************************************************)
(* Validation of "final"                                                   *)
(***************************************************************************)
\* the texts the directive %m of strptime matches: 1[0-2] | 0[1-9] | [1-9]
MatchesMonth(s) ==
  /\ Len(s) \in {1, 2} /\ IsDecimal(s)
  /\ DigitsValue(s) >= 1 /\ DigitsValue(s) <= 12

\* the texts the directive %d matches: 3[01] | [12]\d | 0[1-9] | [1-9] | " "[1-9]
MatchesDay(s) ==
  \/ /\ Len(s) \in {1, 2} /\ IsDecimal(s)
     /\ DigitsValue(s) >= 1 /\ DigitsValue(s) <= 31
  \/ /\ Len(s) = 2 /\ s[1] = " " /\ s[2] \in DecimalChars \ {"0"}

\* the parts between the dashes match %Y, %m and %d and name a date
StrptimeParts(parts) ==
  /\ Len(parts) = 3
  /\ Len(parts[1]) = 4 /\ IsDecimal(parts[1])
  /\ MatchesMonth(parts[2])
  /\ MatchesDay(parts[3])
  /\ IsCalendarDate(DigitsValue(parts[1]), DigitsValue(parts[2]),
                    DigitsValue(LStrip(parts[3])))

\* datetime.strptime(d, "%Y-%m-%d") does not raise ValueError
Strptime(d) == StrptimeParts(Split(d, "-"))

(***************************************************************************)
(* Record model                                                            *)
(***************************************************************************)
\* Expense(date, category, amount, description)
Expense(date, category, amount, description) ==
  [date |-> date, category |-> category, amount |-> amount, description |-> description]

\* x or "" for a text or None
OrEmpty(x) == IF x = None THEN << >> ELSE x

\* "v3" Expense.ToDict: the row written for a record
ToDict(exp) ==
  [date |-> exp.date, category |-> OrEmpty(exp.category),
   amount |-> Format2f(exp.amount), description |-> OrEmpty(exp.description)]

\* "final" Expense.toDict; csv.DictWriter writes None as the empty field
toDict(e) ==
  [date |-> OrEmpty(e.date), category |-> OrEmpty(e.category),
   amount |-> Format2f(e.amount), description |-> OrEmpty(e.description)]

\* amount_raw = (data.get("amount", "0") or "0").strip()
AmountRaw(amount) ==
  IF amount = None \/ amount = << >> THEN << "0" >> ELSE Strip(amount)

\* Expense.FromDict given the float of the amount field
FromDictAmount(data, amount) ==
  IF data.date = None \/ data.category = None \/ data.description = None
  THEN [exc |-> "AttributeError"]
  ELSE IF amount.k = "ValueError" THEN [exc |-> "ValueError"]
  ELSE [exc |-> "none",
        exp |-> Expense(Strip(data.date), Strip(data.category), amount,
                        Strip(data.description))]

\* "v3" Expense.FromDict of a row read by csv.DictReader: the record, or the
\* exception it raises (None.strip() is an AttributeError)
FromDict(data) == FromDictAmount(data, ParseFloat(AmountRaw(data.amount)))

\* Expense.fromDict given the float of the amount field
fromDictAmount(d, amount) ==
  IF amount.k \in {"ValueError", "TypeError"} THEN [exc |-> amount.k]
  ELSE [exc |-> "none", exp |-> Expense(d.date, d.category, amount, d.description)]

\* "final" Expense.fromDict: the fields as read, float() of the amount
fromDict(d) == fromDictAmount(d, ToFloat(d.amount))

\* "v3" Expense.ToKey
ToKey(exp) ==
  << exp.date, OrEmpty(exp.category), exp.amount, OrEmpty(exp.description) >>

\* key in existing_keys, for a key built from another object than the keys of
\* the set: tuples are equal when their elements are
KeyIn(key, keys) ==
  \E k \in keys : k[1] = key[1] /\ k[2] = key[2] /\ FloatEq(k[3], key[3]) /\ k[4] = key[4]

(***************************************************************************)
(* Storage                                                                 *)
(***************************************************************************)
\* The expenses file: absent, or the rows after the header.  A row is what
\* csv.DictReader yields: the four fields, None for each field a short row
\* lacks.
NoFile == [exists |-> FALSE, rows |-> << >>]
File(rows) == [exists |-> TRUE, rows |-> rows]

Row(date, category, amount, description) ==
  [date |-> date, category |-> category, amount |-> amount, description |-> description]

\* a save that writes the rows of the records last to first
SaveNewestFirst(expenses) ==
  File([i \in 1..Len(expenses) |-> ToDict(expenses[Len(expenses) + 1 - i])])

\* The place of a file where reading it fails (bytes that are not UTF-8):
\* there the reader raises UnicodeDecodeError instead of giving a row.
Undecodable == Row(<< "<UnicodeDecodeError>" >>, None, None, None)

\* the rows csv.DictReader gives before the read fails
RECURSIVE ReadableRows(_)
ReadableRows(rows) ==
  IF rows = << >> \/ Head(rows) = Undecodable THEN << >>
  ELSE << Head(rows) >> \o ReadableRows(Tail(rows))

\* reading the file raises part-way
ReadFails(file) == file.exists /\ \E i \in 1..Len(file.rows) : file.rows[i] = Undecodable

\* "v3" ExpenseStorage.SaveExpensesToCsv, "final" ExpenseStorage.saveToCsv
SaveExpensesToCsv(expenses) == File([i \in 1..Len(expenses) |-> ToDict(expenses[i])])

saveToCsv(allSpends) == File([i \in 1..Len(allSpends) |-> toDict(allSpends[i])])

\* the row loop of "v3" LoadExpensesFromCsv: a ValueError skips the row, any
\* other exception, of FromDict or of the reader, leaves the loop with the
\* records read so far
RECURSIVE LoadRows(_, _)
\* one turn of the loop, r being FromDict of the first row
LoadRow(rows, expenses, r) ==
  IF r.exc = "none" THEN LoadRows(Tail(rows), Append(expenses, r.exp))
  ELSE IF r.exc = "ValueError" THEN LoadRows(Tail(rows), expenses)
  ELSE expenses

LoadRows(rows, expenses) ==
  IF rows = << >> THEN expenses ELSE LoadRow(rows, expenses, FromDict(Head(rows)))

\* "v3" ExpenseStorage.LoadExpensesFromCsv(path)
LoadExpensesFromCsv(file) ==
  IF ~file.exists THEN << >> ELSE LoadRows(ReadableRows(file.rows), << >>)

\* the row loop of "final" loadFromCsv: any exception of fromDict skips the
\* row, an exception of the reader leaves the loop with the records read so
\* far
RECURSIVE loadRows(_, _)
loadRowNewestFirst(rows, data, r) ==
  IF r.exc = "none" THEN loadRows(Tail(rows), << r.exp >> \o data)
  ELSE loadRows(Tail(rows), data)

\* one turn of the loop, r being fromDict of the first row
loadRow(rows, data, r) ==
  IF r.exc = "none" THEN loadRows(Tail(rows), Append(data, r.exp))
  ELSE loadRows(Tail(rows), data)

loadRows(rows, data) ==
  IF rows = << >> THEN data ELSE loadRow(rows, data, fromDict(Head(rows)))

\* "final" ExpenseStorage.loadFromCsv
loadFromCsv(file) ==
  IF ~file.exists THEN << >> ELSE loadRows(ReadableRows(file.rows), << >>)

\* the load prints its diagnostic: the row loop was left by an exception
\* the loop does not catch
LoadError == "Error while loading from CSV"
LoadRaises(file) ==
  \/ ReadFails(file)
  \/ file.exists /\ \E i \in 1..Len(file.rows) : FromDict(file.rows[i]).exc = "AttributeError"

\* "final" loadFromCsv prints one line per row it skips
SkippingBadRow == "Skipping bad row"
SkippedLines(rows) ==
  SelectSeq([i \in 1..Len(rows) |->
               IF fromDict(rows[i]).exc = "none" THEN NoError ELSE SkippingBadRow],
            LAMBDA line : line = SkippingBadRow)

\* what "final" loadFromCsv prints: the rows skipped, then the exception
\* that ended the read
SkippedRows(file) ==
  IF ~file.exists THEN << >>
  ELSE SkippedLines(ReadableRows(file.rows))
       \o (IF ReadFails(file) THEN << LoadError >> ELSE << >>)

\* The budget file: absent, or what json.load makes of its text: nothing
\* (the text is not JSON), a value that is not an object, or an object, of
\* which the value under "monthly_budget" is kept: a number (a float, NaN
\* and Infinity included), a string, null, or no such key.
JAbsent == [k |-> "absent", v |-> 0]
JNull == [k |-> "null", v |-> 0]
JStr(s) == [k |-> "str", v |-> s]

NoBudgetFile == [exists |-> FALSE, json |-> "none", value |-> JAbsent]
BudgetFile(json, value) == [exists |-> TRUE, json |-> json, value |-> value]

\* the stored value read with null taken for 0.0
BudgetFloatOrZero(value) ==
  IF value.k \in {"absent", "null"} THEN Fin(0)
  ELSE IF value.k = "str" THEN ParseFloat(value.v)
  ELSE value

\* float(data.get("monthly_budget", 0.0))
BudgetFloat(value) ==
  IF value.k = "absent" THEN Fin(0)
  ELSE IF value.k = "str" THEN ParseFloat(value.v)
  ELSE IF value.k = "null" THEN TypeError
  ELSE value

BudgetLoadError == "Error while loading budget"

\* what a budget operation leaves: the budget in memory and what it printed
BudgetOutcome(budget, out) == [monthly_budget |-> budget, out |-> out]

\* the budget load without the test for the file: open() raises for the
\* missing file and the exception is caught and printed
BudgetReadUnchecked(budget, file, value) ==
  IF ~file.exists \/ file.json # "object" \/ value.k \in {"ValueError", "TypeError"}
  THEN BudgetOutcome(budget, << BudgetLoadError >>)
  ELSE BudgetOutcome(value, << >>)

\* LoadBudgetOnStart given the float of the stored value: every exception
\* is caught and printed, and the budget is left as it was
BudgetRead(budget, file, value) ==
  IF ~file.exists THEN BudgetOutcome(budget, << >>)
  ELSE IF file.json # "object" \/ value.k \in {"ValueError", "TypeError"}
       THEN BudgetOutcome(budget, << BudgetLoadError >>)
  ELSE BudgetOutcome(value, << >>)

\* "v3" BudgetManager.LoadBudgetOnStart, "final" BudgetManager.loadBudget
LoadBudgetOnStart(budget, file) == BudgetRead(budget, file, BudgetFloat(file.value))

\* "v3" BudgetManager.SaveBudget, "final" BudgetManager.saveBudget:
\* json.dump({"monthly_budget": self.monthly_budget}, f)
SaveBudget(budget) == BudgetFile("object", budget)

(***************************************************************************)
(* Reports                                                                 *)
(***************************************************************************)
Uncategorized == << "U", "n", "c", "a", "t", "e", "g", "o", "r", "i", "z", "e", "d" >>

\* A dict of category totals: its items in insertion order.
DictHas(d, key) == \E i \in 1..Len(d) : d[i][1] = key

\* d[key] = d.get(key, 0.0) + amt
DictAdd(d, key, amt) ==
  IF DictHas(d, key)
  THEN [i \in 1..Len(d) |-> IF d[i][1] = key THEN << key, FloatAdd(d[i][2], amt) >> ELSE d[i]]
  ELSE Append(d, << key, FloatAdd(Fin(0), amt) >>)

\* "v3" CategorizeExpenseReport: key = (exp.category or "").strip() or "Uncategorized"
CategoryKey(exp) ==
  LET key == Strip(OrEmpty(exp.category))
  IN  IF key = << >> THEN Uncategorized ELSE key

\* the same key without the strip()
categoryKeyUnstripped(e) ==
  IF e.category = None \/ e.category = << >> THEN Uncategorized ELSE e.category

\* "final" showByCategory, "app" Category Report:
\* e.category.strip() if e.category else "Uncategorized"
categoryKey(e) ==
  IF e.category = None \/ e.category = << >> THEN Uncategorized ELSE Strip(e.category)

RECURSIVE CategoryTotals(_, _)
CategoryTotals(expenses, d) ==
  IF expenses = << >> THEN d
  ELSE CategoryTotals(Tail(expenses), DictAdd(d, CategoryKey(Head(expenses)), Head(expenses).amount))

RECURSIVE categoryTotals(_, _)
categoryTotals(expenses, d) ==
  IF expenses = << >> THEN d
  ELSE categoryTotals(Tail(expenses), DictAdd(d, categoryKey(Head(expenses)), Head(expenses).amount))

\* a > b for floats (False when either is nan)
FloatGreater(a, b) ==
  /\ a.k # "nan" /\ b.k # "nan" /\ a # b
  /\ \/ a.k = "inf" /\ a.v > 0
     \/ b.k = "inf" /\ b.v < 0
     \/ a.k = "fin" /\ b.k = "fin" /\ a.v > b.v

\* key=lambda x: x[0].lower()
BeforeLower(x, y) == StrLess(Lower(x[1]), Lower(y[1]))
\* sorted(sCategories.keys())
BeforeKey(x, y) == StrLess(x[1], y[1])
\* key=lambda x: x[1], reverse=True
BeforeAmountDesc(x, y) == FloatGreater(x[2], y[2])

\* x sorts strictly before y under the sort key named by
Before(by, x, y) ==
  IF by = "lower" THEN BeforeLower(x, y)
  ELSE IF by = "key" THEN BeforeKey(x, y)
  ELSE BeforeAmountDesc(x, y)

\* sorted(): a stable sort
RECURSIVE InsertSorted(_, _, _)
InsertSorted(sorted, x, by) ==
  IF sorted = << >> THEN << x >>
  ELSE IF Before(by, x, Head(sorted)) THEN << x >> \o sorted
  ELSE << Head(sorted) >> \o InsertSorted(Tail(sorted), x, by)

RECURSIVE SortedBy(_, _, _)
SortedBy(items, acc, by) ==
  IF items = << >> THEN acc
  ELSE SortedBy(Tail(items), InsertSorted(acc, Head(items), by), by)

\* "v3" CategorizeExpenseReport: the lines printed, in order
ReportLines(expenses) ==
  SortedBy(CategoryTotals(expenses, << >>), << >>, "lower")

\* "final" showByCategory: the lines printed, in order
reportLines(expenses) ==
  SortedBy(categoryTotals(expenses, << >>), << >>, "key")

\* "app" Category Report: the metrics shown, in order
AppReportLines(expenses) ==
  SortedBy(categoryTotals(expenses, << >>), << >>, "amount")

\* a total that leaves out the records the listing skips
RECURSIVE CalculateTotalShown(_)
CalculateTotalShown(expenses) ==
  IF expenses = << >> THEN Fin(0)
  ELSE IF ValidateExpenseData(Head(expenses).date, StrFloat(Head(expenses).amount)) # NoError
       THEN CalculateTotalShown(Tail(expenses))
  ELSE FloatAdd(Head(expenses).amount, CalculateTotalShown(Tail(expenses)))

\* "v3" CalculateTotalExpenses, "final" totalEx
RECURSIVE CalculateTotalExpenses(_)
CalculateTotalExpenses(expenses) ==
  IF expenses = << >> THEN Fin(0)
  ELSE FloatAdd(CalculateTotalExpenses(SubSeq(expenses, 1, Len(expenses) - 1)),
                expenses[Len(expenses)].amount)

(***************************************************************************)
(* Listing and index parsing                                               *)
(***************************************************************************)
ViewLinesShownOnly(expenses) ==
  [i \in 1..Len(expenses) |->
     [idx |-> Cardinality({j \in 1..i :
                ValidateExpenseData(expenses[j].date, StrFloat(expenses[j].amount)) = NoError}),
      err |-> ValidateExpenseData(expenses[i].date, StrFloat(expenses[i].amount))]]

\* "v3" ViewExpenses: per record, its number and the error that skips it
\* (NoError when it is shown)
ViewLines(expenses) ==
  [i \in 1..Len(expenses) |->
     [idx |-> i,
      err |-> ValidateExpenseData(expenses[i].date, StrFloat(expenses[i].amount))]]

\* the listing raises (ValueError out of int() in the date check)
ViewRaises(expenses) ==
  \E i \in 1..Len(expenses) : ValidateDateStrict(expenses[i].date) = RaisedValueError

\* "final" viewExpenses, "app" View Expenses: every record, numbered from 1
viewLines(expenses) == [i \in 1..Len(expenses) |-> [idx |-> i, err |-> NoError]]

\* int() of a sign and the digits after it
ParseIntBody(neg, body) ==
  IF body = << >> \/ ~IsDecimal(body) THEN ValueError
  ELSE Fin(IF neg THEN -DigitsValue(body) ELSE DigitsValue(body))

ParseIntStripped(t) ==
  IF t # << >> /\ Head(t) \in {"+", "-"} THEN ParseIntBody(Head(t) = "-", Tail(t))
  ELSE ParseIntBody(FALSE, t)

\* int(s) for a str s: optional sign and decimal digits, surrounding
\* whitespace ignored; ValueError otherwise
ParseInt(s) == ParseIntStripped(Strip(s))

\* list.pop(i + 1): the index taken as if it were 0-based already
PopNext(expenses, i) ==
  SubSeq(expenses, 1, i + 1) \o SubSeq(expenses, i + 3, Len(expenses))

\* list.pop(i) for a 0-based i: the list without that element
Pop(expenses, i) ==
  SubSeq(expenses, 1, i) \o SubSeq(expenses, i + 2, Len(expenses))

(***************************************************************************)
(* Inputs of the model                                                     *)
(***************************************************************************)
\* The longest ledger an append is followed to.
MaxLen == 3

DateJan5 == << "2", "0", "2", "4", "-", "0", "1", "-", "0", "5" >>
DateLeap == << "2", "0", "2", "4", "-", "0", "2", "-", "2", "9" >>
Date2000 == << "2", "0", "0", "0", "-", "0", "2", "-", "2", "9" >>
DateNoLeap == << "2", "0", "2", "3", "-", "0", "2", "-", "2", "9" >>
Date1900 == << "1", "9", "0", "0", "-", "0", "2", "-", "2", "9" >>
DateFeb30 == << "2", "0", "2", "3", "-", "0", "2", "-", "3", "0" >>
DateShort == << "2", "0", "2", "4", "-", "1", "-", "5" >>
DateSup == << "2", "0", Sup2, "4", "-", "0", "1", "-", "0", "5" >>
DateWords == << "J", "a", "n", " ", "5" >>
DateEmpty == << >>

Food == << "F", "o", "o", "d" >>
FoodSpaced == << " ", "f", "o", "o", "d", " " >>
food == << "f", "o", "o", "d" >>
Rent == << "R", "e", "n", "t" >>
Blank == << " ", " " >>
Empty == << >>
Lunch == << "l", "u", "n", "c", "h" >>

AmountTen == << "1", "0" >>
AmountFive == << "5" >>
AmountThree == << "3" >>
AmountZero == << "0" >>
AmountNaN == << "n", "a", "n" >>
AmountNegative001 == << "-", "0", ".", "0", "1" >>
AmountNegInf == << "-", "i", "n", "f" >>
AmountWords == << "a", "b", "c" >>
AmountEmpty == << >>
Quit == << "q" >>
QuitUpper == << "Q" >>

\* The runs followed: "grouping" starts without a file and records the
\* categories of the report example, "amounts" starts from a file with a
\* negative amount and a blank category and records zero and nan, "rows"
\* starts from a file with rows that do not parse and imports, "example"
\* starts without an expenses file, from a budget file holding 100.0, and
\* records the three amounts of the worked example.
Scenarios == {"grouping", "amounts", "rows", "example"}

\* The runs followed where the files are written: "budget" starts from the
\* ledger of the worked example and one of the budget files, "persist" from
\* a file with a negative amount and no budget file, "rewrite" from a file
\* with rows that do not parse and no budget file, "unreadable" from a file
\* of which the read fails after the first row, "cutshort" from a file with
\* a row of two fields before a row with an impossible date, "fresh" without
\* any file, its list being built by adds alone.
StoreScenarios == {"budget", "persist", "rewrite", "unreadable", "cutshort", "fresh"}

\* what is typed at the four prompts of "v3" AddExpenseInteractive
Amount1250 == << "1", "2", ".", "5", "0" >>

Amount725 == << "7", ".", "2", "5" >>

Amount10000 == << "1", "0", "0", ".", "0", "0" >>

AmountFourMilli == << "0", ".", "0", "0", "4" >>

AddInputs(s) ==
  IF s = "fresh"
  THEN { << DateJan5, Food, Amount1250, Lunch >>,
         << DateLeap, Rent, AmountFourMilli, Empty >> }
  ELSE IF s = "example"
  THEN { << DateJan5, Food, Amount1250, Lunch >>,
         << DateJan5, Food, Amount725, Empty >>,
         << DateLeap, Rent, Amount10000, Empty >> }
  ELSE IF s = "grouping"
  THEN { << DateJan5, Food, AmountTen, Empty >>,
         << DateJan5, FoodSpaced, AmountFive, Empty >>,
         << DateJan5, Empty, AmountThree, Lunch >>,
         << DateNoLeap, Food, AmountTen, Empty >>,
         << DateJan5, Food, AmountNegative001, Empty >> }
  ELSE IF s = "amounts"
  THEN { << DateLeap, Food, AmountZero, Empty >>,
         << Date2000, Blank, AmountNaN, Empty >>,
         << DateSup, Food, AmountTen, Empty >>,
         << DateShort, Food, AmountTen, Empty >>,
         << DateJan5, Food, AmountWords, Empty >> }
  ELSE { << DateJan5, Food, AmountTen, Empty >>,
         << DateJan5, Food, AmountNegInf, Empty >>,
         << DateFeb30, Food, AmountTen, Empty >> }

\* what is typed, prompt after prompt, during one "final" addExpense
AddScripts(s) ==
  IF s = "fresh"
  THEN { << DateJan5, Food, Amount1250, Lunch >>,
         << DateLeap, Rent, AmountFourMilli, Empty >> }
  ELSE IF s = "example"
  THEN { << DateJan5, Food, Amount1250, Lunch >>,
         << DateJan5, Food, Amount725, Empty >>,
         << DateLeap, Rent, Amount10000, Empty >> }
  ELSE IF s = "grouping"
  THEN { << DateJan5, Food, AmountTen, Empty >>,
         << DateNoLeap, DateShort, FoodSpaced, AmountNegative001, AmountFive, Empty >>,
         << DateJan5, Empty, AmountThree, Lunch >>,
         << DateFeb30, Quit >>,
         << DateJan5, Food, AmountNegative001, QuitUpper >> }
  ELSE IF s = "amounts"
  THEN { << DateLeap, Food, AmountZero, Empty >>,
         << DateSup, DateEmpty, Date2000, Blank, AmountWords, AmountEmpty, AmountNaN, Empty >>,
         << QuitUpper >> }
  ELSE { << DateJan5, Food, AmountTen, Empty >>,
         << DateJan5, Rent, AmountNegInf, Quit >> }

\* what the "app" Add Expense form holds when it is submitted: the date
\* picked, the two text inputs, the number input (never below its
\* min_value 0.0)
AppAddInputs(s) ==
  IF s = "fresh"
  THEN { << << 2024, 1, 5 >>, Food, Fin(12 * Scale + Scale \div 2), Lunch >>,
         << << 2024, 2, 29 >>, Rent, Fin(7 * Scale + Scale \div 4), Empty >> }
  ELSE IF s = "example"
  THEN { << << 2024, 1, 5 >>, Food, Fin(12 * Scale + Scale \div 2), Lunch >>,
         << << 2024, 1, 5 >>, Food, Fin(7 * Scale + Scale \div 4), Empty >>,
         << << 2024, 2, 29 >>, Rent, Fin(100 * Scale), Empty >> }
  ELSE IF s = "grouping"
  THEN { << << 2024, 1, 5 >>, Food, Fin(10 * Scale), Empty >>,
         << << 2024, 1, 5 >>, FoodSpaced, Fin(5 * Scale), Empty >>,
         << << 2024, 1, 5 >>, Empty, Fin(3 * Scale), Lunch >>,
         << << 2024, 1, 5 >>, Food, Fin(0), Empty >> }
  ELSE IF s = "amounts"
  THEN { << << 2024, 2, 29 >>, Blank, Fin(Scale \div 2), Empty >>,
         << << 2024, 2, 29 >>, Food, Fin(0), Empty >> }
  ELSE { << << 2024, 1, 5 >>, Food, Fin(10 * Scale), Empty >> }

\* texts typed at the index prompt of "v3" DeleteExpense
IndexInputs ==
  { NatText(i) : i \in 0..(MaxLen + 1) }
  \cup { << "a", "b", "c" >>, << "1", ".", "5" >> }

\* what is typed, prompt after prompt, during one "final" deleteExpense
DeleteScripts ==
  { << NatText(i) >> : i \in 1..MaxLen }
  \cup { << NatText(0), NatText(MaxLen + 1), << "a", "b", "c" >>, NatText(1) >>,
         << << "1", ".", "5" >>, QuitUpper >> }

\* The expenses file found at start.
StoreBadRows ==
  File(<< Row(<< "2", "0", "2", "4", "-", "1", "3", "-", "4", "5" >>, Rent, << "-", "5", ".", "0", "0" >>, Lunch),
          Row(DateJan5, Blank, << "7", ".", "2", "5" >>, Empty) >>)

StoreShortRows ==
  File(<< Row(DateJan5, Food, AmountWords, Empty),
          Row(DateJan5, Food, Empty, Empty),
          Row(DateLeap, Rent, None, None),
          Row(DateJan5, Food, << "1", "0", ".", "0", "0" >>, Empty) >>)

\* the ledger of the worked example: 12.50, 7.25 and 100.00
StoreLedger ==
  File(<< Row(DateJan5, Food, << "1", "2", ".", "5", "0" >>, Lunch),
          Row(DateJan5, Food, << "7", ".", "2", "5" >>, Empty),
          Row(DateLeap, Rent, << "1", "0", "0", ".", "0", "0" >>, Empty) >>)

StoreCutShort ==
  File(<< Row(DateLeap, Rent, None, None),
          Row(<< "2", "0", "2", "4", "-", "1", "3", "-", "4", "5" >>, Rent,
              << "5", ".", "0", "0" >>, Lunch) >>)

StoreUnreadable ==
  File(<< Row(DateJan5, Food, << "1", "0", ".", "0", "0" >>, Empty),
          Undecodable,
          Row(DateJan5, Rent, << "1", "0", "0", ".", "0", "0" >>, Empty) >>)

InitialStore(s) ==
  IF s \in {"grouping", "example", "fresh"} THEN NoFile
  ELSE IF s = "unreadable" THEN StoreUnreadable
  ELSE IF s = "cutshort" THEN StoreCutShort
  ELSE IF s \in {"amounts", "persist"} THEN StoreBadRows
  ELSE IF s \in {"rows", "rewrite"} THEN StoreShortRows
  ELSE StoreLedger

\* The budget file found at start.
BudgetHundred == << "1", "0", "0" >>
InitialBudgetFiles(s) ==
  IF s = "example" THEN {BudgetFile("object", Fin(100 * Scale))}
  ELSE IF s # "budget" THEN {NoBudgetFile}
  ELSE { NoBudgetFile,
         BudgetFile("garbage", JAbsent),
         BudgetFile("list", JAbsent),
         BudgetFile("object", JAbsent),
         BudgetFile("object", JNull),
         BudgetFile("object", JStr(AmountWords)),
         BudgetFile("object", JStr(BudgetHundred)),
         BudgetFile("object", Fin(100 * Scale)),
         BudgetFile("object", Fin(-50 * Scale)) }

\* The files an import can name: the path typed and the file found there.
ImportNoPath == [path |-> << >>, file |-> NoFile]
ImportMissing == [path |-> << "x", ".", "c", "s", "v" >>, file |-> NoFile]
ImportOld ==
  [path |-> << "o", "l", "d", ".", "c", "s", "v" >>,
   file |-> File(<< Row(DateJan5, Food, << "1", "0", ".", "0", "0" >>, Empty),
                    Row(DateJan5, Rent, << "1", "0", "0", ".", "0", "0" >>, Empty),
                    Row(DateJan5, Rent, << "1", "0", "0", ".", "0" >>, Empty) >>)]
ImportPair ==
  [path |-> << "t", "w", "o", ".", "c", "s", "v" >>,
   file |-> File(<< Row(DateJan5, Food, << "1", "0", ".", "0", "0" >>, Empty),
                    Row(DateJan5, Rent, << "1", "0", "0", ".", "0", "0" >>, Empty) >>)]
ImportOdd ==
  [path |-> << "o", "d", "d", ".", "c", "s", "v" >>,
   file |-> File(<< Row(DateWords, Rent, << "-", "5", ".", "0", "0" >>, Empty),
                    Row(DateLeap, Rent, AmountNaN, Empty) >>)]

ImportSources(s) ==
  IF s = "rows" THEN {ImportNoPath, ImportMissing, ImportOld, ImportPair, ImportOdd}
  ELSE {ImportNoPath}

\* texts typed at the prompt of "v3" SetMonthlyBudget and "final" setBudget
BudgetInputs(s) ==
  IF s = "budget"
  THEN {BudgetHundred, AmountNegative001, AmountWords, AmountNaN, AmountZero}
  ELSE {BudgetHundred}

\* values of the number input of the "app" Set Budget form (never below its
\* min_value 0.0)
AppBudgetInputs(s) ==
  IF s = "budget" THEN {Fin(0), Fin(100 * Scale)} ELSE {Fin(100 * Scale)}

Variants == {"v3", "final", "app"}

(***************************************************************************)
(* State                                                                   *)
(***************************************************************************)
VARIABLES
  variant,   \* which program runs: "v3", "final" or "app"
  scenario,  \* which files are found at start and which texts the user types
  pc,        \* "start" before the load, "menu" between operations,
             \* "crashed" once an exception has left the menu loop
  expenses,  \* the tracker's list self.expenses
  store,     \* the expenses file
  monthly_budget,  \* the budget manager's self.monthly_budget
  budget_file,     \* the budget file
  lastOp     \* the last operation: what was typed, the list before it, what
             \* it reported and printed

vars == << variant, scenario, pc, expenses, store, monthly_budget, budget_file, lastOp >>

Op(op, args, result, before, out) ==
  [op |-> op, args |-> args, result |-> result, before |-> before, out |-> out]

Init ==
  /\ variant \in Variants
  /\ scenario \in Scenarios
  /\ pc = "start"
  /\ expenses = << >>
  /\ store = InitialStore(scenario)
  /\ monthly_budget = Fin(0)
  /\ budget_file \in InitialBudgetFiles(scenario)
  /\ lastOp = Op("init", << >>, NoError, << >>, << >>)

(***************************************************************************)
(* Start: the stored expenses are loaded, then the stored budget           *)
(***************************************************************************)
\* the start-up after both loads, `loaded` being what the budget load left;
\* `printed` is what the load of the expenses printed
Started(op, list, printed, loaded) ==
  /\ pc = "start"
  /\ expenses' = list
  /\ monthly_budget' = loaded.monthly_budget
  /\ pc' = "menu"
  /\ lastOp' = Op(op, << >>, NoError, expenses, printed \o loaded.out)
  /\ UNCHANGED << variant, scenario, store, budget_file >>

\* "v3" ExpenseApp.Start: LoadExpenses, then LoadBudgetOnStart
Start ==
  /\ variant = "v3"
  /\ Started("LoadExpenses", LoadExpensesFromCsv(store),
             IF LoadRaises(store) THEN << LoadError >> ELSE << >>,
             LoadBudgetOnStart(monthly_budget, budget_file))

\* "final" ExpenseApp.start: loadCurrent, then loadBudget; "app" session
\* initialisation: the same two calls
start ==
  /\ variant \in {"final", "app"}
  /\ Started("loadCurrent", loadFromCsv(store), SkippedRows(store),
             LoadBudgetOnStart(monthly_budget, budget_file))

(***************************************************************************)
(* "v3" operations                                                         *)
(***************************************************************************)
Added == "Expense added successfully."

\* list.insert(0, x) in the place of list.append
ListInsertFirst(list, x) == << x >> \o list

\* list.append
ListAppend(list, x) == Append(list, x)

\* what an operation leaves: the message it printed last, the list
\* afterwards and what else it printed
Outcome(result, list, out) == [result |-> result, expenses |-> list, out |-> out]

\* The menu loop of "v3" and "final" after a handler has returned, or has
\* raised: the list is the handler's, the file is untouched.
Returned(op, args, r) ==
  /\ pc = "menu"
  /\ Len(r.expenses) <= MaxLen
  /\ expenses' = r.expenses
  /\ pc' = IF r.result = RaisedValueError THEN "crashed" ELSE "menu"
  /\ lastOp' = Op(op, args, r.result, expenses, r.out)
  /\ UNCHANGED << variant, scenario, store, monthly_budget, budget_file >>

\* AddExpenseInteractive from the error of ValidateExpenseData on
AddExpenseChecked(list, date_str, category, amount_str, description, error) ==
  IF error # NoError THEN Outcome(error, list, << >>)
  ELSE Outcome(Added,
               ListAppend(list, Expense(date_str, category, ParseFloat(amount_str),
                                        description)),
               << >>)

\* AddExpenseInteractive after its four prompts
AddExpenseStripped(list, date_str, category, amount_str, description) ==
  AddExpenseChecked(list, date_str, category, amount_str, description,
                    ValidateExpenseData(date_str, amount_str))

AddExpenseResult(list, date_in, category_in, amount_in, description_in) ==
  AddExpenseStripped(list, Strip(date_in), Strip(category_in), Strip(amount_in),
                     Strip(description_in))

AddExpenseInteractive(in) ==
  /\ variant = "v3"
  /\ Returned("add", in, AddExpenseResult(expenses, in[1], in[2], in[3], in[4]))

NothingToShow == "No expenses to show."
Shown == "Your Expenses:"

\* ViewExpenses, `raises` telling whether the validation of a record raises
ViewResult(list, raises) ==
  IF list = << >> THEN Outcome(NothingToShow, list, << >>)
  ELSE IF raises THEN Outcome(RaisedValueError, list, << >>)
  ELSE Outcome(Shown, list, ViewLines(list))

ViewExpenses ==
  /\ variant = "v3"
  /\ Returned("list", << >>, ViewResult(expenses, ViewRaises(expenses)))

NothingToDelete == "No expenses to delete."
InvalidNumber == "Invalid number. Returning to main menu."
NotAnInteger == "Please enter a valid integer. Returning to main menu."
Deleted == "Deleted"

\* DeleteExpense after its listing "Current Expenses:", which the validation
\* of a record may leave by raising, and its prompt; index is int(index_str)
DeleteParsed(list, raises, index) ==
  IF list = << >> THEN Outcome(NothingToDelete, list, << >>)
  ELSE IF raises THEN Outcome(RaisedValueError, list, << >>)
  ELSE IF index.k = "ValueError" THEN Outcome(NotAnInteger, list, ViewLines(list))
  ELSE IF index.v < 1 \/ index.v > Len(list) THEN Outcome(InvalidNumber, list, ViewLines(list))
  ELSE Outcome(Deleted, Pop(list, index.v - 1), ViewLines(list))

DeleteExpenseResult(list, index_in) ==
  DeleteParsed(list, ViewRaises(list), ParseInt(Strip(index_in)))

DeleteExpense(index_in) ==
  /\ variant = "v3"
  /\ Returned("delete", << index_in >>, DeleteExpenseResult(expenses, index_in))

NothingToCategorize == "No expenses to categorize."
Reported == "Expenses by Category:"

ReportResult(list) ==
  IF list = << >> THEN Outcome(NothingToCategorize, list, << >>)
  ELSE Outcome(Reported, list, ReportLines(list))

CategorizeExpenseReport ==
  /\ variant = "v3"
  /\ Returned("report", << >>, ReportResult(expenses))

NoPath == "No path provided. Returning to main menu."
NothingToImport == "No expenses found to import or file could not be read."
Imported == "Imported"

\* the merge loop of ImportExpensesFromCsv: the list afterwards
RECURSIVE MergeImported(_, _, _)
\* one turn of the loop that does not add the key of the record it appends
MergeOneUntracked(list, existing_keys, imported, e) ==
  IF ~KeyIn(ToKey(e), existing_keys)
  THEN MergeImported(ListAppend(list, e), existing_keys, Tail(imported))
  ELSE MergeImported(list, existing_keys, Tail(imported))

\* one turn of the loop for the record e
MergeOne(list, existing_keys, imported, e) ==
  IF ~KeyIn(ToKey(e), existing_keys)
  THEN MergeImported(ListAppend(list, e), existing_keys \cup {ToKey(e)}, Tail(imported))
  ELSE MergeImported(list, existing_keys, Tail(imported))

MergeImported(list, existing_keys, imported) ==
  IF imported = << >> THEN list
  ELSE MergeOne(list, existing_keys, imported, Head(imported))

\* ImportExpensesFromCsv after its prompt, given the records read from the
\* file and the list the merge loop leaves; it prints the three counts
ImportOutcome(list, path, imported, merged) ==
  IF Strip(path) = << >> THEN Outcome(NoPath, list, << >>)
  ELSE IF imported = << >> THEN Outcome(NothingToImport, list, << >>)
  ELSE Outcome(Imported, merged,
               << Len(imported), Len(merged) - Len(list), Len(merged) >>)

\* existing_keys = {e.ToKey() for e in self.expenses}
ExistingKeys(list) == {ToKey(list[i]) : i \in 1..Len(list)}

ImportMerged(list, imported) == MergeImported(list, ExistingKeys(list), imported)

ImportRead(list, path, imported) ==
  ImportOutcome(list, path, imported, ImportMerged(list, imported))

ImportResult(list, src) == ImportRead(list, src.path, LoadExpensesFromCsv(src.file))

ImportExpensesFromCsv(src) ==
  /\ variant = "v3"
  /\ Returned("import", src, ImportResult(expenses, src))

(***************************************************************************)
(* "final" operations                                                      *)
(***************************************************************************)
InvalidDateFormat == "Invalid date format. Please use YYYY-MM-DD (2025-10-28)."
AmountNegativeFinal == "Amount cannot be negative."
AmountNotNumberFinal == "Please enter a valid number (25.50)."
ReturningToMenu == "Returning to main menu."
EndOfInput == "EOFError"

\* A prompt loop reads the texts typed one after the other: `status` is
\* "ok" when it returns `value`, "cancelled" when q makes it return None and
\* "eof" when nothing is left to read; `rest` is what is typed after it,
\* `printed` the messages of the rejected texts.
Prompted(status, value, rest, printed) ==
  [status |-> status, value |-> value, rest |-> rest, printed |-> printed]

\* ExpenseTracker.validateDate
RECURSIVE validateDate(_, _)
\* one turn of its loop for the text d
validateDateTurn(typed, printed, d) ==
  IF Lower(d) = Quit THEN Prompted("cancelled", None, Tail(typed), printed)
  ELSE IF Strptime(d) THEN Prompted("ok", d, Tail(typed), printed)
  ELSE validateDate(Tail(typed), Append(printed, InvalidDateFormat))

validateDate(typed, printed) ==
  IF typed = << >> THEN Prompted("eof", None, << >>, printed)
  ELSE validateDateTurn(typed, printed, Strip(Head(typed)))

\* ExpenseTracker.validateAmount
RECURSIVE validateAmount(_, _)
\* one turn of its loop for a text that is not q, val being float() of it
validateAmountValue(typed, printed, val) ==
  IF val.k = "ValueError"
  THEN validateAmount(Tail(typed), Append(printed, AmountNotNumberFinal))
  ELSE IF FloatNegative(val)
       THEN validateAmount(Tail(typed), Append(printed, AmountNegativeFinal))
  ELSE Prompted("ok", val, Tail(typed), printed)

validateAmountTurn(typed, printed, a) ==
  IF Lower(a) = Quit THEN Prompted("cancelled", None, Tail(typed), printed)
  ELSE validateAmountValue(typed, printed, ParseFloat(a))

validateAmount(typed, printed) ==
  IF typed = << >> THEN Prompted("eof", None, << >>, printed)
  ELSE validateAmountTurn(typed, printed, Strip(Head(typed)))

AddOutcome(result, list, out, rest) ==
  [result |-> result, expenses |-> list, out |-> out, rest |-> rest]

\* addExpense from the amount prompt on: a is what validateAmount returned
addAfterAmount(list, d, c, a) ==
  IF a.status = "eof" \/ (a.status = "ok" /\ a.rest = << >>)
  THEN AddOutcome(EndOfInput, list, a.printed, << >>)
  ELSE IF a.status = "cancelled" THEN AddOutcome(ReturningToMenu, list, a.printed, a.rest)
  ELSE AddOutcome(Added,
                  ListAppend(list, Expense(d, c, a.value, Strip(Head(a.rest)))),
                  a.printed, Tail(a.rest))

\* addExpense from the category prompt on: d is what validateDate returned
addAfterDate(list, d) ==
  IF d.status = "eof" THEN AddOutcome(EndOfInput, list, d.printed, << >>)
  ELSE IF d.status = "cancelled" THEN AddOutcome(ReturningToMenu, list, d.printed, d.rest)
  ELSE IF d.rest = << >> THEN AddOutcome(EndOfInput, list, d.printed, << >>)
  ELSE addAfterAmount(list, d.value, Strip(Head(d.rest)),
                      validateAmount(Tail(d.rest), d.printed))

\* ExpenseTracker.addExpense for the texts typed at its prompts
addExpenseResult(list, typed) == addAfterDate(list, validateDate(typed, << >>))

\* A handler of "final" that read exactly the texts typed
ReturnedAll(op, typed, r) ==
  /\ r.result # EndOfInput /\ r.rest = << >>
  /\ Returned(op, typed, r)

addExpense(typed) ==
  /\ variant = "final"
  /\ ReturnedAll("add", typed, addExpenseResult(expenses, typed))

\* The outcomes of "final" and "app" carry the names of the "v3" messages
\* for the same outcome: "final" prints "No expenses yet.", "nothing to
\* delete." and "nothing recorded yet." where the list is empty.
viewResult(list) ==
  IF list = << >> THEN Outcome(NothingToShow, list, << >>)
  ELSE Outcome(Shown, list, viewLines(list))

viewExpenses ==
  /\ variant = "final"
  /\ Returned("list", << >>, viewResult(expenses))

OutOfRange == "Out of range!"
NotANumber == "That wasn't a number"
Cancelled == "cancelled"

\* the prompt loop of ExpenseTracker.deleteExpense
RECURSIVE deleteLoop(_, _, _)
\* one turn of the loop for a text that is not q, indexx being int() of it
deleteIndex(list, typed, printed, indexx) ==
  IF indexx.k = "ValueError" THEN deleteLoop(list, Tail(typed), Append(printed, NotANumber))
  ELSE IF indexx.v <= 0 \/ indexx.v > Len(list)
       THEN deleteLoop(list, Tail(typed), Append(printed, OutOfRange))
  ELSE AddOutcome(Deleted, Pop(list, indexx.v - 1), printed, Tail(typed))

deleteTurn(list, typed, printed, choice) ==
  IF Lower(choice) = Quit THEN AddOutcome(Cancelled, list, printed, Tail(typed))
  ELSE deleteIndex(list, typed, printed, ParseInt(choice))

deleteLoop(list, typed, printed) ==
  IF typed = << >> THEN AddOutcome(EndOfInput, list, printed, << >>)
  ELSE deleteTurn(list, typed, printed, Strip(Head(typed)))

\* ExpenseTracker.deleteExpense for the texts typed at its prompt
deleteExpenseResult(list, typed) ==
  IF list = << >> THEN AddOutcome(NothingToDelete, list, << >>, << >>)
  ELSE deleteLoop(list, typed, << >>)

deleteExpense(typed) ==
  /\ variant = "final"
  /\ ReturnedAll("delete", typed, deleteExpenseResult(expenses, typed))

showResult(list) ==
  IF list = << >> THEN Outcome(NothingToCategorize, list, << >>)
  ELSE Outcome(Reported, list, reportLines(list))

showByCategory ==
  /\ variant = "final"
  /\ Returned("report", << >>, showResult(expenses))

(***************************************************************************)
(* "app" operations                                                        *)
(***************************************************************************)
AmountNotPositive == "Amount must be greater than 0"

\* date.strftime("%Y-%m-%d")
Strftime(date) ==
  ZeroPad(NatText(date[1]), 4) \o << "-" >> \o ZeroPad(NatText(date[2]), 2)
  \o << "-" >> \o ZeroPad(NatText(date[3]), 2)

\* the file after save_expenses(), which only a form that changed the list calls
AppSaved(file, result, list) == IF result \in {Added, Deleted} THEN saveToCsv(list) ELSE file

\* The script has run to its end for a page: the list is the page's, and
\* the file is written when the page saved.
Rerun(op, args, r) ==
  /\ pc = "menu"
  /\ Len(r.expenses) <= MaxLen
  /\ expenses' = r.expenses
  /\ store' = AppSaved(store, r.result, r.expenses)
  /\ lastOp' = Op(op, args, r.result, expenses, r.out)
  /\ UNCHANGED << variant, scenario, pc, monthly_budget, budget_file >>

\* the Add Expense form, submitted
AppAddResult(list, date, category, amount, description) ==
  IF FloatNotPositive(amount) THEN Outcome(AmountNotPositive, list, << >>)
  ELSE Outcome(Added,
               ListAppend(list, Expense(Strftime(date), category, amount, description)),
               << >>)

AppAddExpense(in) ==
  /\ variant = "app"
  /\ Rerun("add", in, AppAddResult(expenses, in[1], in[2], in[3], in[4]))

AppViewExpenses ==
  /\ variant = "app"
  /\ Rerun("list", << >>, viewResult(expenses))

\* the Delete Expense page: the option selected is one of the list
AppDeleteResult(list, index) ==
  IF list = << >> THEN Outcome(NothingToDelete, list, << >>)
  ELSE Outcome(Deleted, Pop(list, index), << >>)

AppDeleteExpense(index) ==
  /\ variant = "app"
  /\ expenses = << >> => index = 0
  /\ expenses # << >> => index < Len(expenses)
  /\ Rerun("delete", << index >>, AppDeleteResult(expenses, index))

AppReportResult(list) ==
  IF list = << >> THEN Outcome(NothingToCategorize, list, << >>)
  ELSE Outcome(Reported, list, AppReportLines(list))

AppCategoryReport ==
  /\ variant = "app"
  /\ Rerun("report", << >>, AppReportResult(expenses))

(***************************************************************************)
(* Saving, the total and the budget                                        *)
(***************************************************************************)
Saved == "Saved"
SaveError == "Error while saving to CSV"

\* The menu loop after a save: the file is the one written when open()
\* succeeded and is left alone when open() raised OSError, which the save
\* catches and prints; `after` is where the menu loop goes on.  The file
\* as it was is kept with the operation.
SavedTo(op, file, ok, after) ==
  /\ pc = "menu"
  /\ store' = IF ok THEN file ELSE store
  /\ pc' = after
  /\ lastOp' = Op(op, << >>, IF ok THEN Saved ELSE SaveError, expenses, store)
  /\ UNCHANGED << variant, scenario, expenses, monthly_budget, budget_file >>

\* "v3" menu choice 7: ExpenseTracker.SaveExpenses
SaveExpenses(ok) ==
  /\ variant = "v3"
  /\ SavedTo("save", SaveExpensesToCsv(expenses), ok, "menu")

ExitUnsaved(ok) ==
  /\ variant = "v3"
  /\ SavedTo("exit", store, ok, "exited")

\* "v3" menu choice 9: SaveExpenses, then the loop is left
ExitAutoSave(ok) ==
  /\ variant = "v3"
  /\ SavedTo("exit", SaveExpensesToCsv(expenses), ok, "exited")

\* "final" menu choice 7: ExpenseTracker.saveCurrent
saveCurrent(ok) ==
  /\ variant = "final"
  /\ SavedTo("save", saveToCsv(expenses), ok, "menu")

\* "final" menu choice 8: saveCurrent, then the loop is left
exitSave(ok) ==
  /\ variant = "final"
  /\ SavedTo("exit", saveToCsv(expenses), ok, "exited")

\* "app" Save All button: save_expenses()
AppSaveAll(ok) ==
  /\ variant = "app"
  /\ SavedTo("save", saveToCsv(expenses), ok, "menu")

NoBudgetSet == "No monthly budget set yet. Please set one first."
OverBudget == "Over Budget By"
LeftForMonth == "left for the month"
Totalled == "Total Expenses"

\* what is printed about the budget: a message and the amount it names
Tracked(msg, amount) == [msg |-> msg, amount |-> amount]

TrackRemainingOrEqual(remaining) ==
  IF FloatNotPositive(remaining) THEN Tracked(OverBudget, FloatAbs(remaining))
  ELSE Tracked(LeftForMonth, remaining)

\* TrackBudget from remaining = self.monthly_budget - total_expenses on
TrackRemaining(remaining) ==
  IF FloatNegative(remaining) THEN Tracked(OverBudget, FloatAbs(remaining))
  ELSE Tracked(LeftForMonth, remaining)

\* "v3" BudgetManager.TrackBudget, "final" BudgetManager.track
TrackBudget(budget, total_expenses) ==
  IF FloatNotPositive(budget) THEN Tracked(NoBudgetSet, Fin(0))
  ELSE TrackRemaining(FloatSub(budget, total_expenses))

\* "app" Dashboard: the Remaining metric and the budget status
AppTrack(budget, total) ==
  IF ~FloatGreater(budget, Fin(0)) THEN Tracked(NoBudgetSet, Fin(0))
  ELSE TrackRemaining(FloatSub(budget, total))

\* the total and what is printed about the budget
TotalOutcome(list, total, track) ==
  Outcome(Totalled, list, [total |-> total, track |-> track])

TrackResult(list, budget, total) == TotalOutcome(list, total, TrackBudget(budget, total))

\* "v3" menu choice 5: CalculateTotalExpenses, then TrackBudget
TrackTotal ==
  /\ variant = "v3"
  /\ Returned("total", << >>,
              TrackResult(expenses, monthly_budget, CalculateTotalExpenses(expenses)))

\* "final" menu choice 5: totalEx, then track
trackTotal ==
  /\ variant = "final"
  /\ Returned("total", << >>,
              TrackResult(expenses, monthly_budget, CalculateTotalExpenses(expenses)))

AppDashboardResult(list, budget, total) == TotalOutcome(list, total, AppTrack(budget, total))

\* "app" Dashboard page
AppDashboard ==
  /\ variant = "app"
  /\ Rerun("total", << >>,
           AppDashboardResult(expenses, monthly_budget, CalculateTotalExpenses(expenses)))

BudgetPrompt == "Enter your monthly budget amount: "
BudgetNegative == "Budget cannot be negative. Try again."
BudgetNotNumber == "Please enter a valid number for the budget."
BudgetSet == "Monthly budget set"

\* "v3" menu choice 4, "final" menu choice 4: the prompt loop of
\* SetMonthlyBudget / setBudget is entered
SetMonthlyBudget ==
  /\ variant \in {"v3", "final"} /\ pc = "menu"
  /\ pc' = "budget"
  /\ lastOp' = Op("budget", << >>, BudgetPrompt, expenses, << monthly_budget, budget_file >>)
  /\ UNCHANGED << variant, scenario, expenses, store, monthly_budget, budget_file >>

\* one turn of the loop, value being float(raw): the budget and the budget
\* file it leaves and what it prints
SetBudgetValue(budget, file, value) ==
  IF value.k = "ValueError"
  THEN [result |-> BudgetNotNumber, monthly_budget |-> budget, budget_file |-> file]
  ELSE IF FloatNegative(value)
       THEN [result |-> BudgetNegative, monthly_budget |-> budget, budget_file |-> file]
  ELSE [result |-> BudgetSet, monthly_budget |-> value, budget_file |-> SaveBudget(value)]

\* the budget and its file after a turn; the loop is left once a value is set
BudgetTurned(raw, r) ==
  /\ monthly_budget' = r.monthly_budget
  /\ budget_file' = r.budget_file
  /\ pc' = IF r.result = BudgetSet THEN "menu" ELSE "budget"
  /\ lastOp' = Op("budget", << raw >>, r.result, expenses, << monthly_budget, budget_file >>)
  /\ UNCHANGED << variant, scenario, expenses, store >>

\* a text is typed at the prompt of SetMonthlyBudget / setBudget
BudgetTyped(raw) ==
  /\ pc = "budget"
  /\ BudgetTurned(raw, SetBudgetValue(monthly_budget, budget_file, ParseFloat(raw)))

\* "app" Set Budget form, submitted with the value of its number input
AppSetBudget(new_budget) ==
  /\ variant = "app" /\ pc = "menu"
  /\ BudgetTurned(new_budget,
                  [result |-> BudgetSet, monthly_budget |-> new_budget,
                   budget_file |-> SaveBudget(new_budget)])

(***************************************************************************)
(* The ledger: the runs that add, list, delete, report, total and import,  *)
(* from the expenses file found at start                                   *)
(***************************************************************************)
Next ==
  \/ Start
  \/ start
  \/ \E in \in AddInputs(scenario) : AddExpenseInteractive(in)
  \/ ViewExpenses
  \/ \E index_in \in IndexInputs : DeleteExpense(index_in)
  \/ CategorizeExpenseReport
  \/ \E src \in ImportSources(scenario) : ImportExpensesFromCsv(src)
  \/ \E typed \in AddScripts(scenario) : addExpense(typed)
  \/ viewExpenses
  \/ \E typed \in DeleteScripts : deleteExpense(typed)
  \/ showByCategory
  \/ \E in \in AppAddInputs(scenario) : AppAddExpense(in)
  \/ AppViewExpenses
  \/ \E index \in 0..MaxLen : AppDeleteExpense(index)
  \/ AppCategoryReport
  \/ TrackTotal
  \/ trackTotal
  \/ AppDashboard

Spec == Init /\ [][Next]_vars

(***************************************************************************)
(* The files: the runs that save, leave and set the budget, from the       *)
(* expenses file and the budget file found at start                        *)
(***************************************************************************)
InitStore ==
  /\ variant \in Variants
  /\ scenario \in StoreScenarios
  /\ pc = "start"
  /\ expenses = << >>
  /\ store = InitialStore(scenario)
  /\ monthly_budget = Fin(0)
  /\ budget_file \in InitialBudgetFiles(scenario)
  /\ lastOp = Op("init", << >>, NoError, << >>, << >>)

NextStore ==
  \/ Start
  \/ start
  \/ \E in \in AddInputs(scenario) : AddExpenseInteractive(in)
  \/ \E typed \in AddScripts(scenario) : addExpense(typed)
  \/ \E in \in AppAddInputs(scenario) : AppAddExpense(in)
  \/ \E ok \in BOOLEAN : SaveExpenses(ok)
  \/ \E ok \in BOOLEAN : ExitAutoSave(ok)
  \/ \E ok \in BOOLEAN : saveCurrent(ok)
  \/ \E ok \in BOOLEAN : exitSave(ok)
  \/ \E ok \in BOOLEAN : AppSaveAll(ok)
  \/ TrackTotal
  \/ trackTotal
  \/ AppDashboard
  \/ SetMonthlyBudget
  \/ \E raw \in BudgetInputs(scenario) : BudgetTyped(raw)
  \/ \E new_budget \in AppBudgetInputs(scenario) : AppSetBudget(new_budget)

SpecStore == InitStore /\ [][NextStore]_vars

(***************************************************************************)
(* Validation on its own: the date and amount texts are drawn first, then  *)
(* ValidateExpenseData is applied to them                                  *)
(***************************************************************************)
ValidateYears == {1900, 2000, 2023, 2024}
ValidateMonths == {0, 1, 2, 4, 12, 13}
ValidateDays == {0, 1, 28, 29, 30, 31, 32}

\* date texts of the shape YYYY-MM-DD, and texts of other shapes
ShapedDates ==
  { Strftime(<< y, m, d >>) : y \in ValidateYears, m \in ValidateMonths, d \in ValidateDays }
ValidateDates == ShapedDates \cup {DateShort, DateSup, DateWords, DateEmpty}

ValidateAmounts ==
  {AmountTen, AmountZero, AmountNegative001, AmountNegInf, AmountNaN, AmountWords,
   AmountEmpty}

InitValidate ==
  /\ variant = "v3"
  /\ scenario = "validate"
  /\ pc = "validate"
  /\ expenses = << >>
  /\ store = NoFile
  /\ monthly_budget = Fin(0)
  /\ budget_file = NoBudgetFile
  /\ \E date_str \in ValidateDates, amount_str \in ValidateAmounts :
       lastOp = Op("typed", << date_str, amount_str >>, NoError, << >>, << >>)

Validate ==
  /\ pc = "validate" /\ lastOp.op = "typed"
  /\ lastOp' = Op("validate", lastOp.args,
                  ValidateExpenseData(lastOp.args[1], lastOp.args[2]), << >>, << >>)
  /\ UNCHANGED << variant, scenario, pc, expenses, store, monthly_budget, budget_file >>

AllFieldsRequired == "All fields (date, category, amount, description) are required."

AmountNotNumber4 == "Amount must be a number."

\* expesneTracker4WithComments.py: float(amount_str), then the sign
AmountError4(amount_value) ==
  IF amount_value.k = "ValueError" THEN AmountNotNumber4
  ELSE IF FloatNegative(amount_value) THEN AmountNegative
  ELSE NoError

\* expesneTracker4WithComments.py ExpenseTracker.ValidateExpenseData, which
\* reads neither the category nor the description
ValidateExpenseData4(date_str, amount_str) ==
  IF date_str = << >> \/ amount_str = << >> THEN AllFieldsRequired
  ELSE IF ~Strptime(date_str) THEN DateFormat
  ELSE AmountError4(ParseFloat(amount_str))

\* one call of ValidateExpenseData of expesneTracker4WithComments.py on the
\* texts drawn
Validate4 ==
  /\ pc = "validate" /\ lastOp.op = "typed"
  /\ lastOp' = Op("validate4", lastOp.args,
                  ValidateExpenseData4(lastOp.args[1], lastOp.args[2]), << >>, << >>)
  /\ UNCHANGED << variant, scenario, pc, expenses, store, monthly_budget, budget_file >>

NextValidate == Validate \/ Validate4

SpecValidate == InitValidate /\ [][NextValidate]_vars

(***************************************************************************)
(* The row of a record and back: a record is drawn first, then written as  *)
(* a row by ToDict / toDict and read back by FromDict / fromDict           *)
(***************************************************************************)
\* one thousandth
Milli == Scale \div 1000

\* amounts a record can hold after an accepted add: whole cents, and
\* amounts typed with a third fractional digit
RoundTripAmounts ==
  { Fin(v * Milli) : v \in {0, 1, 4, 5, 6, 10, 15, 125, 994, 995, 999, 1000, 7250, 12500,
                            12506, 100000, 119750} }

\* the texts a record of "v3" holds are stripped, by the add and by the
\* load; "final" strips at the add only, and its load keeps the fields as
\* read, None for the description a row of three fields lacks
RoundTripCategories(v) ==
  IF v = "v3" THEN {Food, food, Empty} ELSE {Food, food, Empty, FoodSpaced, Blank}
RoundTripDescriptions(v) ==
  IF v = "v3" THEN {Lunch, Empty} ELSE {Lunch, Empty, None}

InitRoundTrip ==
  /\ variant \in {"v3", "final"}
  /\ scenario = "roundtrip"
  /\ pc = "roundtrip"
  /\ expenses = << >>
  /\ store = NoFile
  /\ monthly_budget = Fin(0)
  /\ budget_file = NoBudgetFile
  /\ \E date \in {DateJan5, DateLeap}, category \in RoundTripCategories(variant),
        amount \in RoundTripAmounts, description \in RoundTripDescriptions(variant) :
       lastOp = Op("record", << Expense(date, category, amount, description) >>, NoError,
                   << >>, << >>)

\* "v3" Expense.FromDict(exp.ToDict())
RoundTrip ==
  /\ variant = "v3" /\ pc = "roundtrip" /\ lastOp.op = "record"
  /\ lastOp' = Op("roundtrip", lastOp.args, NoError, << >>, FromDict(ToDict(lastOp.args[1])))
  /\ UNCHANGED << variant, scenario, pc, expenses, store, monthly_budget, budget_file >>

\* "final" Expense.fromDict of the row csv writes for e.toDict()
roundTrip ==
  /\ variant = "final" /\ pc = "roundtrip" /\ lastOp.op = "record"
  /\ lastOp' = Op("roundtrip", lastOp.args, NoError, << >>, fromDict(toDict(lastOp.args[1])))
  /\ UNCHANGED << variant, scenario, pc, expenses, store, monthly_budget, budget_file >>

NextRoundTrip == RoundTrip \/ roundTrip

SpecRoundTrip == InitRoundTrip /\ [][NextRoundTrip]_vars

(***************************************************************************)
(* Properties                                                              *)
(***************************************************************************)
LoadOps == {"LoadExpenses", "loadCurrent", "import"}

\* the record is one of the list
InList(list, rec) == \E i \in 1..Len(list) : list[i] = rec

\* the last operation was an add that appended
AddAccepted == lastOp.op = "add" /\ lastOp.result = Added

\* the last operation ended without doing what it was asked
Rejected ==
  /\ lastOp.op \in {"add", "delete", "list", "report"}
  /\ lastOp.result \notin {Added, Deleted, Shown, Reported}

C2_AddedDateIsCalendarDate ==
  AddAccepted => ValidateDateStrict(expenses[Len(expenses)].date) = NoError

\* what add is given at the prompts of "final" when nothing is retyped
FinalTypedOnce ==
  /\ Len(lastOp.args) = 4
  /\ Strptime(Strip(lastOp.args[1]))
  /\ ParseFloat(Strip(lastOp.args[3])).k \in {"fin", "nan", "inf"}
  /\ ~FloatNegative(ParseFloat(Strip(lastOp.args[3])))

\* C3: when the date and the amount are accepted, add appends exactly one
\* record carrying the fields supplied, at the end: the list is the list
\* before followed by that record.
C3_AddAppendsAtEnd ==
  /\ (lastOp.op = "add" /\ variant = "v3"
      /\ ValidateExpenseData(Strip(lastOp.args[1]), Strip(lastOp.args[3])) = NoError)
       => /\ lastOp.result = Added
          /\ expenses = lastOp.before
               \o << Expense(Strip(lastOp.args[1]), Strip(lastOp.args[2]),
                             ParseFloat(Strip(lastOp.args[3])), Strip(lastOp.args[4])) >>
  /\ (lastOp.op = "add" /\ variant = "final" /\ FinalTypedOnce)
       => /\ lastOp.result = Added
          /\ expenses = lastOp.before
               \o << Expense(Strip(lastOp.args[1]), Strip(lastOp.args[2]),
                             ParseFloat(Strip(lastOp.args[3])), Strip(lastOp.args[4])) >>
  /\ (lastOp.op = "add" /\ variant = "app" /\ lastOp.result = Added)
       => expenses = lastOp.before
            \o << Expense(Strftime(lastOp.args[1]), lastOp.args[2], lastOp.args[3],
                          lastOp.args[4]) >>
  /\ AddAccepted
       => /\ Len(expenses) = Len(lastOp.before) + 1
          /\ SubSeq(expenses, 1, Len(lastOp.before)) = lastOp.before

\* an add has appended to a list that already held records
C3_AppendedAfterOthers ==
  /\ AddAccepted
  /\ Len(lastOp.before) >= 2
  /\ expenses[Len(expenses)] # lastOp.before[1]

\* C4: every rejected operation leaves the list as it was and ends with a
\* reason, not with an exception.
C4_RejectedIsNoOp ==
  Rejected =>
    /\ expenses = lastOp.before
    /\ lastOp.result # RaisedValueError
    /\ pc # "crashed"

\* the integer a text of IndexInputs or DeleteScripts denotes, -1 if none
IndexTyped(text) ==
  IF \E k \in 0..(MaxLen + 1) : text = NatText(k)
  THEN CHOOSE k \in 0..(MaxLen + 1) : text = NatText(k)
  ELSE -1

\* the list `after` is the list `before` without its record at position i
\* (counted from 1): the records before i stay, the records after i move
\* down by one
RemovedAt(before, after, i) ==
  /\ Len(after) = Len(before) - 1
  /\ \A j \in 1..(i - 1) : after[j] = before[j]
  /\ \A j \in (i + 1)..Len(before) : after[j - 1] = before[j]

\* C5: delete(i) on a list of n records rejects when i is not an integer,
\* i < 1 or i > n, and for 1 <= i <= n removes exactly the record at
\* position i, the later records moving down by one.
C5_DeleteByIndex ==
  /\ (lastOp.op = "delete" /\ variant = "v3" /\ lastOp.before # << >>
      /\ lastOp.result # RaisedValueError)
       => LET i == IndexTyped(lastOp.args[1])
              n == Len(lastOp.before)
          IN  IF i = -1
              THEN lastOp.result = NotAnInteger /\ expenses = lastOp.before
              ELSE IF i < 1 \/ i > n
                   THEN lastOp.result = InvalidNumber /\ expenses = lastOp.before
              ELSE lastOp.result = Deleted /\ RemovedAt(lastOp.before, expenses, i)
  /\ (lastOp.op = "delete" /\ variant = "final" /\ lastOp.before # << >>)
       => LET typed == lastOp.args
              n     == Len(lastOp.before)
              last  == IndexTyped(typed[Len(typed)])
          IN  /\ Len(lastOp.out) = Len(typed) - 1
              /\ \A k \in 1..(Len(typed) - 1) :
                   /\ IndexTyped(typed[k]) = -1 => lastOp.out[k] = NotANumber
                   /\ IndexTyped(typed[k]) # -1
                        => /\ lastOp.out[k] = OutOfRange
                           /\ IndexTyped(typed[k]) < 1 \/ IndexTyped(typed[k]) > n
              /\ IF last = -1
                 THEN lastOp.result = Cancelled /\ expenses = lastOp.before
                 ELSE /\ last >= 1 /\ last <= n
                      /\ lastOp.result = Deleted
                      /\ RemovedAt(lastOp.before, expenses, last)
  /\ (lastOp.op = "delete" /\ variant = "app" /\ lastOp.before # << >>)
       => /\ lastOp.result = Deleted
          /\ RemovedAt(lastOp.before, expenses, lastOp.args[1] + 1)

\* delete(1) on a list of three records: the former second record is the
\* first
C5_FirstOfThreeDeleted ==
  /\ lastOp.op = "delete" /\ lastOp.result = Deleted
  /\ variant = "v3" /\ lastOp.args = << NatText(1) >>
  /\ Len(lastOp.before) = 3
  /\ lastOp.before[1] # lastOp.before[2]
  /\ expenses[1] = lastOp.before[2]

\* C6: for a date of the shape YYYY-MM-DD with month 02 and day 29,
\* validate gives the leap-year reason exactly when the year is not a leap
\* year; that reason differs from the generic one, which the other
\* impossible dates get; 2024-02-29 is accepted, 2023-02-29 gets the
\* leap-year reason and 2023-02-30 the generic one.
C6_LeapDayReason ==
  /\ NotLeapYear # InvalidCalendarDate
  /\ lastOp.op = "validate" =>
       /\ \A y \in ValidateYears, m \in ValidateMonths, d \in ValidateDays :
            lastOp.args[1] = Strftime(<< y, m, d >>) =>
              /\ (m = 2 /\ d = 29) =>
                   (lastOp.result = NotLeapYear
                      <=> ~(y % 4 = 0 /\ (y % 100 # 0 \/ y % 400 = 0)))
              /\ ~(m = 2 /\ d = 29) => lastOp.result # NotLeapYear
              /\ (\/ m < 1 \/ m > 12 \/ d < 1 \/ d > 31
                  \/ (m = 2 /\ d > 29)
                  \/ (m = 4 /\ d > 30)) => lastOp.result = InvalidCalendarDate
       /\ lastOp.args = << DateLeap, AmountTen >> => lastOp.result = NoError
       /\ lastOp.args = << DateNoLeap, AmountTen >> => lastOp.result = NotLeapYear
       /\ lastOp.args = << DateFeb30, AmountTen >> => lastOp.result = InvalidCalendarDate

\* validate has given the leap-year reason for February 29 of a year that
\* is divisible by 4 and is not a leap year
C6_Year1900Refused ==
  /\ lastOp.op = "validate"
  /\ lastOp.args = << Date1900, AmountTen >>
  /\ lastOp.result = NotLeapYear

\* C7: with a valid date a negative amount is rejected with the
\* negative-amount reason and an amount of zero is accepted, at every entry
\* point of the program.
C7_NegativeRejectedZeroAccepted ==
  /\ (lastOp.op = "add" /\ variant = "v3"
      /\ ValidateDateStrict(Strip(lastOp.args[1])) = NoError)
       => /\ Strip(lastOp.args[3]) \in {AmountNegative001, AmountNegInf}
               => lastOp.result = AmountNegative
          /\ Strip(lastOp.args[3]) = AmountZero => lastOp.result = Added
  /\ (lastOp.op = "add" /\ variant = "final" /\ Len(lastOp.args) = 4
      /\ Strptime(Strip(lastOp.args[1])))
       => /\ Strip(lastOp.args[3]) \in {AmountNegative001, AmountNegInf}
               => lastOp.out = << AmountNegativeFinal >>
          /\ Strip(lastOp.args[3]) = AmountZero => lastOp.result = Added
  /\ (lastOp.op = "add" /\ variant = "app" /\ lastOp.args[3] = Fin(0))
       => lastOp.result = Added

\* a category as the reports trim it
Trimmed(rec) == Strip(OrEmpty(rec.category))

\* the sum of the amounts of the records whose trimmed category is t
RECURSIVE SumTrimmed(_, _)
SumTrimmed(list, t) ==
  IF list = << >> THEN Fin(0)
  ELSE FloatAdd(IF Trimmed(Head(list)) = t THEN Head(list).amount ELSE Fin(0),
                SumTrimmed(Tail(list), t))

\* the report lines with the label t
LinesLabelled(lines, t) == {k \in 1..Len(lines) : lines[k][1] = t}

ReportDone == lastOp.op = "report" /\ lastOp.result = Reported

\* the ledger of the grouping example: categories "Food", " food " (or the
\* "food" that add keeps of it), "" with the amounts 10, 5, 3
ExampleLedger(list) ==
  /\ Len(list) = 3
  /\ list[1].category = Food /\ list[1].amount = Fin(10 * Scale)
  /\ list[2].category \in {FoodSpaced, food} /\ list[2].amount = Fin(5 * Scale)
  /\ list[3].category = Empty /\ list[3].amount = Fin(3 * Scale)

\* C8 as stated: the report groups records by category, surrounding
\* whitespace trimmed and letter case ignored: the categories that differ
\* from a record's only in case or surrounding whitespace have one group
\* between them, so the example yields exactly two groups, Food = 15.00 and
\* Uncategorized = 3.00.
C8_GroupsIgnoreCase ==
  ReportDone =>
    /\ \A i \in 1..Len(lastOp.before) :
         Trimmed(lastOp.before[i]) # << >> =>
           Cardinality({k \in 1..Len(lastOp.out) :
                          Lower(lastOp.out[k][1]) = Lower(Trimmed(lastOp.before[i]))}) = 1
    /\ ExampleLedger(lastOp.before)
         => {lastOp.out[k] : k \in 1..Len(lastOp.out)}
              = { << Food, Fin(15 * Scale) >>, << Uncategorized, Fin(3 * Scale) >> }

\* C8 as amended: the report groups the records whose category is not blank
\* by the category with surrounding whitespace trimmed, letter case kept:
\* each such category has exactly one line, labelled by the trimmed text,
\* and (the label Uncategorized aside, which blank categories share) its
\* subtotal sums the records with that trimmed text; the example yields
\* three groups, Food = 10.00, food = 5.00 and Uncategorized = 3.00.
C8_GroupsByTrimmedCategory ==
  ReportDone =>
    /\ \A i \in 1..Len(lastOp.before) :
         Trimmed(lastOp.before[i]) # << >> =>
           /\ Cardinality(LinesLabelled(lastOp.out, Trimmed(lastOp.before[i]))) = 1
           /\ Trimmed(lastOp.before[i]) # Uncategorized =>
                \A k \in LinesLabelled(lastOp.out, Trimmed(lastOp.before[i])) :
                  lastOp.out[k][2] = SumTrimmed(lastOp.before, Trimmed(lastOp.before[i]))
    /\ ExampleLedger(lastOp.before)
         => /\ Len(lastOp.out) = 3
            /\ {lastOp.out[k] : k \in 1..Len(lastOp.out)}
                 = { << Food, Fin(10 * Scale) >>, << food, Fin(5 * Scale) >>,
                     << Uncategorized, Fin(3 * Scale) >> }

\* the report has been made of the example ledger with " food " stored
\* untrimmed
C8_ExampleReported ==
  /\ ReportDone
  /\ ExampleLedger(lastOp.before)
  /\ lastOp.before[2].category = FoodSpaced
  /\ Len(lastOp.out) = 3

\* C9: the report puts every record whose category is absent, empty or
\* whitespace-only under "Uncategorized", never under an empty label, and
\* leaves the stored categories as they were.
C9_BlankIsUncategorized ==
  ReportDone =>
    /\ expenses = lastOp.before
    /\ \A k \in 1..Len(lastOp.out) : lastOp.out[k][1] # << >>
    /\ \A i \in 1..Len(lastOp.before) :
         Trimmed(lastOp.before[i]) = << >>
           => /\ Cardinality(LinesLabelled(lastOp.out, Uncategorized)) = 1
              /\ \A k \in LinesLabelled(lastOp.out, Uncategorized) :
                   lastOp.out[k][2] = SumTrimmed(lastOp.before, << >>)

\* C10: the report gives its groups in alphabetical order of the label,
\* compared without regard to letter case.
C10_OrderIgnoresCase ==
  ReportDone =>
    \A k \in 1..(Len(lastOp.out) - 1) :
      ~StrLess(Lower(lastOp.out[k + 1][1]), Lower(lastOp.out[k][1]))

\* the amounts of the list added up, the first record first
RECURSIVE SumAmounts(_)
SumAmounts(list) ==
  IF list = << >> THEN Fin(0) ELSE FloatAdd(Head(list).amount, SumAmounts(Tail(list)))

\* the listing of "v3" would skip the record
FailsValidate(rec) == ValidateExpenseData(rec.date, StrFloat(rec.amount)) # NoError

\* C11: the total is the sum of the amounts of all the records in memory,
\* the records that fail validation included.
C11_TotalCountsEveryRecord ==
  lastOp.op = "total" => lastOp.out.total = SumAmounts(expenses)

\* the total 2.25 of a loaded record of -5.00 with a malformed date, which
\* the listing skips, and a record of 7.25
C11_SkippedRecordCounted ==
  /\ variant = "v3" /\ lastOp.op = "total"
  /\ Len(expenses) = 2 /\ FailsValidate(expenses[1]) /\ ~FailsValidate(expenses[2])
  /\ lastOp.out.total = Fin(2 * Scale + Scale \div 4)
  /\ SumAmounts(expenses) = Fin(2 * Scale + Scale \div 4)

\* C12: a listing shows exactly the records that pass validation and
\* reports every other record as skipped, with the reason validation gives.
C12_ListSkipsInvalid ==
  (lastOp.op = "list" /\ lastOp.result = Shown) =>
    \A i \in 1..Len(expenses) :
      lastOp.out[i].err = ValidateExpenseData(expenses[i].date, StrFloat(expenses[i].amount))

\* the two records have the same key: date, category, amount as a number
\* and description, a missing category or description counting as empty
SameKey(a, b) ==
  /\ a.date = b.date /\ OrEmpty(a.category) = OrEmpty(b.category)
  /\ FloatEq(a.amount, b.amount) /\ OrEmpty(a.description) = OrEmpty(b.description)

\* the j-th incoming record has the key of no record of the ledger and of
\* no earlier incoming record
IsNew(ledger, incoming, j) ==
  /\ ~\E i \in 1..Len(ledger) : SameKey(ledger[i], incoming[j])
  /\ ~\E i \in 1..(j - 1) : SameKey(incoming[i], incoming[j])

NewIndexes(ledger, incoming) ==
  SelectSeq([j \in 1..Len(incoming) |-> j], LAMBDA j : IsNew(ledger, incoming, j))

Picked(seq, indexes) == [k \in 1..Len(indexes) |-> seq[indexes[k]]]

\* the import appended exactly the new ones of the incoming records, in
\* their order, and printed the counts of incoming and added records
MergedExactly(ledger, incoming, new) ==
  /\ expenses = ledger \o new
  /\ lastOp.out = << Len(incoming), Len(new), Len(ledger) + Len(new) >>

ImportedFrom(ledger, incoming) ==
  MergedExactly(ledger, incoming, Picked(incoming, NewIndexes(ledger, incoming)))

\* C13: an import appends exactly the incoming records whose key is the key
\* of no record already in the ledger and of no earlier incoming record; the
\* count of added records it reports is the number appended, and the rest
\* of the incoming records are the duplicates skipped.
C13_ImportAppendsNewKeys ==
  lastOp.op = "import" =>
    IF lastOp.result = Imported
    THEN ImportedFrom(lastOp.before, LoadExpensesFromCsv(lastOp.args.file))
    ELSE expenses = lastOp.before

\* a file of one record that is in the ledger and one that is not: two
\* incoming, one added
C13_OneDuplicateOneNew ==
  /\ lastOp.op = "import" /\ lastOp.args = ImportPair
  /\ \E i \in 1..Len(lastOp.before) :
       SameKey(lastOp.before[i], Expense(DateJan5, Food, Fin(10 * Scale), Empty))
  /\ lastOp.out[1] = 2 /\ lastOp.out[2] = 1
  /\ expenses = Append(lastOp.before, Expense(DateJan5, Rent, Fin(100 * Scale), Empty))

\* b is a whole number of cents and no further than half a cent from a
RoundedToCents(a, b) ==
  /\ a.k = "fin" /\ b.k = "fin"
  /\ b.v % (Scale \div 100) = 0
  /\ 2 * (IF b.v > a.v THEN b.v - a.v ELSE a.v - b.v) <= Scale \div 100

\* the record read back has the fields of the record r, a missing field
\* being an empty one, and its amount rounded to cents
ReadsBack(r, back) ==
  /\ back.exc = "none"
  /\ back.exp.date = r.date
  /\ back.exp.category = OrEmpty(r.category)
  /\ back.exp.description = OrEmpty(r.description)
  /\ RoundedToCents(r.amount, back.exp.amount)

\* C14: the row of a valid record reads back as a record with the same
\* date, category and description and with the amount rounded to two
\* decimals.
C14_RowReadsBack ==
  lastOp.op = "roundtrip" => ReadsBack(lastOp.args[1], lastOp.out)

\* 12.506 is written as 12.51 and read back as 12.51
C14_ThirdDigitRounded ==
  /\ lastOp.op = "roundtrip"
  /\ lastOp.args[1].amount = Fin(12506 * Milli)
  /\ lastOp.out.exc = "none"
  /\ lastOp.out.exp.amount = Fin(12510 * Milli)
  /\ lastOp.out.exp.category = lastOp.args[1].category

\* the row of the i-th record as the running program writes it
WrittenRow(i) == IF variant = "v3" THEN ToDict(expenses[i]) ELSE toDict(expenses[i])

\* the last operation was a save that reported success
SaveDone == lastOp.op \in {"save", "exit"} /\ lastOp.result = Saved

\* C15: after a successful save the expenses file holds, after its header,
\* one row per record of the list, in the order of the list, whatever it
\* held before, and the list is as it was.
C15_SaveOverwrites ==
  SaveDone =>
    /\ store.exists
    /\ Len(store.rows) = Len(expenses)
    /\ \A i \in 1..Len(expenses) : store.rows[i] = WrittenRow(i)
    /\ expenses = lastOp.before

\* a file of four rows is replaced by the rows of a list of two records
C15_FourRowsReplacedByTwo ==
  /\ SaveDone
  /\ lastOp.out.exists /\ Len(lastOp.out.rows) = 4
  /\ Len(expenses) = 2 /\ Len(store.rows) = 2
  /\ store.rows[2] # lastOp.out.rows[2]

\* the message is among the lines printed
PrintedLine(out, line) == \E i \in 1..Len(out) : out[i] = line

\* C16: the load of an expenses file that does not exist gives the empty
\* list, the load of a budget file that does not exist leaves the budget at
\* 0.0; neither prints an error and neither creates the file.
C16_MissingFilesLoadAsEmpty ==
  [][(pc = "start" /\ pc' = "menu") =>
       /\ ~store.exists =>
            /\ expenses' = << >> /\ ~store'.exists
            /\ ~PrintedLine(lastOp'.out, LoadError)
            /\ ~PrintedLine(lastOp'.out, SkippingBadRow)
       /\ ~budget_file.exists =>
            /\ monthly_budget' = Fin(0) /\ ~budget_file'.exists
            /\ ~PrintedLine(lastOp'.out, BudgetLoadError)]_vars

\* the program has started where neither file exists
C16_StartedWithoutFiles ==
  /\ lastOp.op \in {"LoadExpenses", "loadCurrent"} /\ pc = "menu"
  /\ ~store.exists /\ ~budget_file.exists
  /\ expenses = << >> /\ monthly_budget = Fin(0) /\ lastOp.out = << >>

\* what the running program makes of each row of the file
RowsRead(rows) ==
  [i \in 1..Len(rows) |-> IF variant = "v3" THEN FromDict(rows[i]) ELSE fromDict(rows[i])]

Records(read) == [k \in 1..Len(read) |-> read[k].exp]

\* the records of the rows that deserialize, in the order of the rows
Deserialized(rows) == Records(SelectSeq(RowsRead(rows), LAMBDA r : r.exc = "none"))

\* the program has just started on an expenses file
LoadedAtStart == lastOp.op \in {"LoadExpenses", "loadCurrent"} /\ store.exists

\* C17: the load skips a row that does not deserialize and goes on with
\* the rows after it: the list is exactly the records of the rows that
\* deserialize, in their order in the file.
C17_LoadSkipsOnlyBadRows ==
  LoadedAtStart => expenses = Deserialized(store.rows)

\* C18: a load that fails while the file is read prints a diagnostic and
\* gives the empty list, not the records read before the failure.
C18_FailedLoadGivesEmptyList ==
  (lastOp.op \in {"LoadExpenses", "loadCurrent"} /\ PrintedLine(lastOp.out, LoadError))
    => expenses = << >>

\* the budget file holds text that is not JSON, JSON that is not an object,
\* or an object whose monthly_budget is null or a text that is no number
MalformedBudget(file) ==
  /\ file.exists
  /\ \/ file.json \in {"garbage", "list"}
     \/ file.value.k = "null"
     \/ file.value.k = "str" /\ ParseFloat(file.value.v).k = "ValueError"

\* C19: the load of a budget file with malformed content leaves the budget
\* at 0.0 and prints a diagnostic, the load of an object without the key
\* monthly_budget leaves it at 0.0 without one, and in no case does the
\* start-up end by an exception.
C19_MalformedBudgetLoadsAsZero ==
  [][pc = "start" =>
       /\ pc' = "menu"
       /\ MalformedBudget(budget_file) =>
            monthly_budget' = Fin(0) /\ PrintedLine(lastOp'.out, BudgetLoadError)
       /\ (budget_file.exists /\ budget_file.json = "object" /\ budget_file.value = JAbsent) =>
            monthly_budget' = Fin(0) /\ ~PrintedLine(lastOp'.out, BudgetLoadError)]_vars

\* the program has started on a budget file whose monthly_budget is "abc"
C19_StartedOnWordsForBudget ==
  /\ lastOp.op \in {"LoadExpenses", "loadCurrent"} /\ pc = "menu"
  /\ budget_file = BudgetFile("object", JStr(AmountWords))
  /\ monthly_budget = Fin(0)
  /\ PrintedLine(lastOp.out, BudgetLoadError)

\* the last operation was a text typed at the budget prompt and turned away
BudgetRejected == lastOp.op = "budget" /\ lastOp.result \in {BudgetNegative, BudgetNotNumber}

\* C20: in every reachable state the budget in memory is >= 0, a budget
\* the program has written to the budget file is >= 0, and a budget that is
\* turned away changes neither the budget nor the file.
C20_BudgetNeverNegative ==
  /\ FloatNonNegative(monthly_budget)
  /\ (lastOp.op = "budget" /\ lastOp.result = BudgetSet) =>
       budget_file = BudgetFile("object", monthly_budget)
  /\ BudgetRejected => monthly_budget = lastOp.out[1] /\ budget_file = lastOp.out[2]

\* C21: with a budget b > 0, the total t of the ledger is reported over
\* budget by t - b exactly when t > b, and otherwise as b - t left (0 left
\* when t = b); 12.50, 7.25 and 100.00 against a budget of 100.00 are over
\* budget by 19.75.
C21_TrackComparesTotalWithBudget ==
  (lastOp.op = "total" /\ FloatGreater(monthly_budget, Fin(0))) =>
     /\ lastOp.out.total = SumAmounts(expenses)
     /\ IF FloatGreater(lastOp.out.total, monthly_budget)
        THEN lastOp.out.track =
               Tracked(OverBudget, FloatSub(lastOp.out.total, monthly_budget))
        ELSE lastOp.out.track =
               Tracked(LeftForMonth, FloatSub(monthly_budget, lastOp.out.total))

\* the three records of 12.50, 7.25 and 100.00 total 119.75, which a budget
\* of 100.00 reports as over budget by 19.75
C21_OverBudgetByNineteenSeventyFive ==
  /\ lastOp.op = "total" /\ scenario = "example" /\ Len(expenses) = 3
  /\ monthly_budget = Fin(100 * Scale)
  /\ lastOp.out.total = Fin(119750 * Milli)
  /\ lastOp.out.track = Tracked(OverBudget, Fin(19750 * Milli))

\* a total equal to the budget of 100.00 is reported as 0.00 left
C21_TotalEqualsBudget ==
  /\ lastOp.op = "total" /\ monthly_budget = Fin(100 * Scale)
  /\ lastOp.out.total = Fin(100 * Scale)
  /\ lastOp.out.track = Tracked(LeftForMonth, Fin(0))

\* C22: add, delete and import change the list in memory only and leave
\* the expenses file as it was; the file changes only when a save runs.
C22_StoreChangesOnlyOnSave ==
  [][/\ lastOp'.op \in {"add", "delete", "import"} => store' = store
     /\ store' # store => lastOp'.op \in {"save", "exit"}]_vars

\* the rows a save of the list in memory writes
SavedRows == IF variant = "v3" THEN SaveExpensesToCsv(expenses) ELSE saveToCsv(expenses)

\* C23: the first step of the program loads the expenses and then the
\* budget, no menu choice comes before it; and once the program has left
\* through the exit choice the last thing done to the expenses file is a
\* save of the list then in memory: unless the write failed, the file holds
\* the rows of that list.
C23_ExitSavesLedger ==
  [][/\ pc = "start" =>
          /\ lastOp'.op \in {"LoadExpenses", "loadCurrent"}
          /\ monthly_budget' = LoadBudgetOnStart(monthly_budget, budget_file).monthly_budget
          /\ store' = store
     /\ pc' = "exited" =>
          /\ lastOp'.op = "exit" /\ lastOp'.before = expenses'
          /\ lastOp'.result = Saved => store' = SavedRows']_vars

\* "v3" has left through choice 9 with two records in memory, and the file,
\* which held four rows before, holds the rows of these two
C23_ExitedWithLedgerSaved ==
  /\ variant = "v3" /\ pc = "exited" /\ lastOp.op = "exit" /\ lastOp.result = Saved
  /\ Len(expenses) = 2
  /\ lastOp.out # store /\ Len(lastOp.out.rows) = 4
  /\ store = SaveExpensesToCsv(expenses)

\* the reasons validate gives for a date, and those it gives for an amount;
\* the reason for a missing field is about the date when the date is empty
\* and about the amount otherwise
DateReasons == {DateRequired, DateFormat, NotLeapYear, InvalidCalendarDate}

AmountReasons == {AmountRequired, AmountNegative, AmountNotNumber, AmountNotNumber4}

IsDateReason(date_str, reason) ==
  reason \in DateReasons \/ (reason = AllFieldsRequired /\ date_str = << >>)

IsAmountReason(date_str, reason) ==
  reason \in AmountReasons \/ (reason = AllFieldsRequired /\ date_str # << >>)

\* date_str is YYYY-MM-DD and names a day of the calendar
DateValid(date_str) ==
  \E y \in ValidateYears, m \in ValidateMonths, d \in ValidateDays :
    /\ date_str = Strftime(<< y, m, d >>)
    /\ m \in 1..12 /\ d \in 1..DaysInMonth(y, m)

\* C24: validate gives the reason of the first rule that fails, the rules
\* of the date before the rule of the amount: for an invalid date the
\* reason is a date reason whatever the amount text is, and an amount reason
\* is given only for a valid date.
C24_DateReasonComesFirst ==
  lastOp.op \in {"validate", "validate4"} =>
    /\ ~DateValid(lastOp.args[1]) => IsDateReason(lastOp.args[1], lastOp.result)
    /\ IsAmountReason(lastOp.args[1], lastOp.result) => DateValid(lastOp.args[1])

\* from_row of the program that runs: Expense.FromDict or Expense.fromDict
FromRow(row) == IF variant = "v3" THEN FromDict(row) ELSE fromDict(row)

\* the row has no amount: the field is missing or is the empty string
NoAmount(row) == row.amount = None \/ row.amount = Empty

\* C25: the rows of the file the program has started on: from_row of a
\* row without an amount gives a record with amount 0.00, and from_row
\* fails only on a row whose amount is not empty and is not a number.
C25_NoAmountLoadsAsZero ==
  (lastOp.op \in {"LoadExpenses", "loadCurrent"} /\ store.exists) =>
    \A i \in 1..Len(ReadableRows(store.rows)) :
      /\ NoAmount(store.rows[i]) =>
           FromRow(store.rows[i]).exc = "none" /\ FromRow(store.rows[i]).exp.amount = Fin(0)
      /\ FromRow(store.rows[i]).exc # "none" =>
           ~NoAmount(store.rows[i]) /\ ParseFloat(Strip(store.rows[i].amount)).k = "ValueError"

\* a row whose date validate refuses and whose amount float() reads as a
\* finite number
MalformedDateRow(row) ==
  /\ row.date # None /\ row.category # None /\ row.amount # None /\ row.description # None
  /\ ValidateDateStrict(Strip(row.date)) \notin {NoError, RaisedValueError}
  /\ ParseFloat(AmountRaw(row.amount)).k = "fin"

\* the row save writes for the record load makes of the row
RowWrittenBack(row) ==
  IF variant = "v3" THEN ToDict(FromDict(row).exp) ELSE toDict(fromDict(row).exp)

\* the file has row `row`
InFile(file, row) == file.exists /\ \E j \in 1..Len(file.rows) : file.rows[j] = row

\* C26: a row of the file the program started on that has a malformed date
\* and a parseable amount is loaded and kept in memory, and the next save
\* writes it back: after the start-up load and a save that did not fail,
\* the file still has the row.
C26_MalformedDateRowKept ==
  \A i \in 1..Len(InitialStore(scenario).rows) :
    MalformedDateRow(InitialStore(scenario).rows[i]) =>
      /\ lastOp.op \in {"LoadExpenses", "loadCurrent"} =>
           \E j \in 1..Len(expenses) :
             expenses[j].date = Strip(InitialStore(scenario).rows[i].date)
      /\ (lastOp.op \in {"save", "exit"} /\ lastOp.result = Saved) =>
           InFile(store, RowWrittenBack(InitialStore(scenario).rows[i]))

\* the listing a delete is chosen from: the one DeleteExpense prints in
\* "v3", the one viewExpenses or the selectbox shows in "final" and "app"
ListingBefore == IF variant = "v3" THEN lastOp.out ELSE viewLines(lastOp.before)

\* the number delete was given, as the listing counts
DeleteNumber ==
  IF variant = "app" THEN lastOp.args[1] + 1
  ELSE IndexTyped(lastOp.args[Len(lastOp.args)])

\* C27: the k-th record of the list in memory is listed under the number
\* k, shown or skipped, also after records that were skipped; and a delete
\* by a number removes exactly the record the listing before it had under
\* that number.
C27_ShownIndexIsPosition ==
  /\ (lastOp.op = "list" /\ lastOp.result = Shown) =>
       /\ Len(lastOp.out) = Len(expenses)
       /\ \A k \in 1..Len(lastOp.out) : lastOp.out[k].idx = k
  /\ (lastOp.op = "delete" /\ lastOp.result = Deleted) =>
       /\ Len(ListingBefore) = Len(lastOp.before)
       /\ \E k \in 1..Len(ListingBefore) : ListingBefore[k].idx = DeleteNumber
       /\ \A k \in 1..Len(ListingBefore) :
            ListingBefore[k].idx = DeleteNumber => RemovedAt(lastOp.before, expenses, k)

\* "v3" has listed a skipped record as #1 and a shown record as 2., and the
\* delete of 2 has removed the shown record and left the skipped one
C27_DeletedAfterSkippedEntry ==
  /\ variant = "v3" /\ lastOp.op = "delete" /\ lastOp.result = Deleted
  /\ Len(lastOp.before) = 2 /\ DeleteNumber = 2
  /\ lastOp.out[1].err # NoError /\ lastOp.out[2].err = NoError
  /\ lastOp.out[2].idx = 2
  /\ expenses = << lastOp.before[1] >>

\* the sum of the subtotals of a report, in the order of its lines
RECURSIVE SumSubtotals(_)
SumSubtotals(lines) ==
  IF lines = << >> THEN Fin(0) ELSE FloatAdd(Head(lines)[2], SumSubtotals(Tail(lines)))

\* C28: for every content of the list, the subtotals of the category
\* report add up to the total: the two are equal as floats.
C28_SubtotalsSumToTotal ==
  ReportDone => FloatEq(SumSubtotals(lastOp.out), CalculateTotalExpenses(expenses))

\* the list the next start would load from the file as it is now
Reloaded == IF variant = "v3" THEN LoadExpensesFromCsv(store) ELSE loadFromCsv(store)

\* the list in memory was built by adds alone and has just been saved
SavedFreshLedger == SaveDone /\ InitialStore(scenario) = NoFile

\* the reloaded list has as many records as the list in memory, in the
\* same order, with the same dates, categories and descriptions
ReloadedInOrder ==
  /\ Len(Reloaded) = Len(expenses)
  /\ \A i \in 1..Len(expenses) :
       /\ Reloaded[i].date = expenses[i].date
       /\ Reloaded[i].category = expenses[i].category
       /\ Reloaded[i].description = expenses[i].description

\* the amount has no digit after the second fractional one
WholeCents(a) == a.k = "fin" /\ a.v % (Scale \div 100) = 0

IsPrefix(before, after) ==
  Len(before) <= Len(after) /\ SubSeq(after, 1, Len(before)) = before

\* C30: an import removes and reorders nothing, it only appends at the end;
\* and an import of the source that was imported in the step before adds
\* no record and leaves the list as it is.
C30_ImportIsIdempotent ==
  [][lastOp'.op = "import" =>
       /\ IsPrefix(expenses, expenses')
       /\ (lastOp.op = "import" /\ lastOp.result = Imported /\ lastOp'.args = lastOp.args) =>
            expenses' = expenses /\ lastOp'.out[2] = 0]_vars
====
